---- MODULE Spec2Model ----
(***************************************************************************)
(* EvidencePlatform backend: import jobs, dedup jobs, overlap detection,   *)
(* match strategies and the per-project PostgreSQL advisory lock.          *)
(*                                                                         *)
(* The committed database is the state; every background worker is a       *)
(* sequence of steps, one per commit / lock call, and a transaction that   *)
(* has not committed yet lives in txn[job] where nobody else reads it.     *)
(***************************************************************************)
EXTENDS Integers, Sequences, FiniteSets, TLC

\* ------------------------------------------------------------------ bounds
\* Number of background jobs (import, dedup, overlap) ever created.
MaxJobs == 2

\* --------------------------------------------------------------- universe
Projects == {"P1", "P2", "P3"}

\* projects.id is a UUID (uuid4); <<upper 65 bits, lower 63 bits>>.  Two
\* UUIDs differ in at least one half: P2 differs from P1 in the lower half,
\* P3 in the upper half only.
ProjectUUID(p) == IF p = "P1" THEN <<1, 1>> ELSE IF p = "P2" THEN <<1, 2>> ELSE <<2, 1>>

\* sources.project_id
SourceProject(s) == IF s = "s3" THEN "P2" ELSE IF s = "s4" THEN "P3" ELSE "P1"

Sources == {"s1", "s2", "s3", "s4"}

\* match_strategies rows that are ever created: id -> project, preset.
StrategyIds == {"st1", "st2", "st3"}

StrategyProject(s) == "P1"

StrategyPreset(s) == IF s = "st2" THEN "medium" ELSE "doi_first_strict"

\* match_strategies.config: st3 was created with the field builder's dict,
\* identifiers only; the other strategies have none (they go by preset).
StrategyConfigDict(s) ==
    IF s = "st3"
    THEN [use_doi |-> TRUE, use_pmid |-> TRUE, use_title_year |-> FALSE,
          use_title_author_year |-> FALSE, use_fuzzy |-> FALSE]
    ELSE [use_doi |-> FALSE, use_pmid |-> FALSE, use_title_year |-> FALSE,
          use_title_author_year |-> FALSE, use_fuzzy |-> FALSE]

HasConfigDict(s) == s = "st3"

\* Parsed records as the parsers hand them to the import: the fields the
\* import normalises and stores.  "" and 0 are Python's None (both falsy).
PA == [title |-> "t1", author |-> "a1", year |-> 2001, doi |-> "", pmid |-> "", abstract |-> ""]

PB == [title |-> "t1", author |-> "a2", year |-> 2001, doi |-> "", pmid |-> "", abstract |-> ""]

PC == [title |-> "t1", author |-> "a1", year |-> 2001, doi |-> "d1", pmid |-> "", abstract |-> ""]

PN == [title |-> "t2", author |-> "", year |-> 2001, doi |-> "", pmid |-> "", abstract |-> ""]

\* The upload requests users make: project in the URL, source in the form,
\* and the file as parse_file returns it (the list of valid parsed records).
Uploads ==
    {<<"P1", "s1", <<PA, PB>>>>, <<"P1", "s2", <<PN, PC>>>>, <<"P1", "s1", <<>>>>,
     <<"P2", "s3", <<PA>>>>, <<"P1", "s3", <<PA>>>>, <<"P3", "s4", <<PA>>>>}

NoKey == ""

\* ------------------------------------------------------------ pure helpers
SeqToSet(s) == {s[i] : i \in 1..Len(s)}

Min(S) == CHOOSE x \in S : \A y \in S : x <= y

\* A fresh primary key (uuid4 in the code): the least id not in use.
FreshId(used) == Min({i \in 1..(Cardinality(used) + 1) : i \notin used})

\* match_keys.compute_match_key: the match key of a parsed record under a
\* preset, NoKey when the preset's fields are missing.
compute_match_key(norm_title, norm_first_author, year, doi, preset) ==
    LET tay == "tay:" \o norm_title \o "|" \o norm_first_author \o "|" \o ToString(year)
        ty  == "ty:" \o norm_title \o "|" \o ToString(year)
        ta  == "ta:" \o norm_title \o "|" \o norm_first_author
    IN  IF preset \in {"doi_first_strict", "doi_first_medium"}
        THEN IF doi # "" THEN "doi:" \o doi
             ELSE IF preset = "doi_first_strict"
                  THEN IF norm_title # "" /\ norm_first_author # "" /\ year # 0
                       THEN tay ELSE NoKey
                  ELSE IF norm_title # "" /\ year # 0 THEN ty ELSE NoKey
        ELSE IF preset = "strict"
        THEN IF norm_title # "" /\ norm_first_author # "" /\ year # 0
             THEN tay ELSE NoKey
        ELSE IF preset = "medium"
        THEN IF norm_title # "" /\ year # 0 THEN ty ELSE NoKey
        ELSE IF preset = "loose"
        THEN IF norm_title # "" /\ norm_first_author # "" THEN ta ELSE NoKey
        ELSE NoKey

\* locks.derive_project_lock_key: the lower 63 bits of the project UUID.
derive_project_lock_key(p) == ProjectUUID(p)[2]

LockKeys == {derive_project_lock_key(p) : p \in Projects}

\* ------------------------------------------------------- upsert_and_link
\* An INSERT that finds no conflict whatever the table holds: the insert
\* without the unique index.
RecordConflictNever(R, p, key) == FALSE

\* The unique partial index uq_records_project_match_key as the arbiter of
\* INSERT ... ON CONFLICT (project_id, match_key) WHERE match_key IS NOT NULL.
RecordConflict(R, p, key) ==
    \E r \in R : r.project = p /\ r.match_key = key

KeyOf(paper, preset) ==
    compute_match_key(paper.title, paper.author, paper.year, paper.doi, preset)

\* Phase A-1 of upsert_and_link: the keyed records, in file order.
RECURSIVE UpsertKeyed(_, _, _, _, _)
UpsertKeyed(R, used, file, p, preset) ==
    IF file = <<>> THEN R
    ELSE LET key == KeyOf(Head(file), preset)
             id  == FreshId(used)
         IN  IF key = NoKey \/ RecordConflict(R, p, key)
             THEN UpsertKeyed(R, used, Tail(file), p, preset)
             ELSE UpsertKeyed(R \cup {[id |-> id, project |-> p, match_key |-> key]},
                              used \cup {id}, Tail(file), p, preset)

\* The join row of one parsed record (Phase B values).
SourceRow(id, record_id, source, job, paper) ==
    [id |-> id, record_id |-> record_id, source_id |-> source,
     import_job_id |-> job, norm_title |-> paper.title,
     norm_first_author |-> paper.author, match_year |-> paper.year,
     match_doi |-> paper.doi, pmid |-> paper.pmid, abstract |-> paper.abstract]

\* The unique index uq_record_sources_record_source (record_id, source_id).
SourceRowConflict(RS, record_id, source) ==
    \E rs \in RS : rs.record_id = record_id /\ rs.source_id = source

\* Phase B for the keyed records: the record id is looked up by match key.
RECURSIVE LinkKeyed(_, _, _, _, _, _, _)
LinkKeyed(RS, R, file, p, source, job, preset) ==
    IF file = <<>> THEN RS
    ELSE LET key == KeyOf(Head(file), preset)
             rid == (CHOOSE r \in R : r.project = p /\ r.match_key = key).id
             id  == FreshId({rs.id : rs \in RS})
         IN  IF key = NoKey \/ SourceRowConflict(RS, rid, source)
             THEN LinkKeyed(RS, R, Tail(file), p, source, job, preset)
             ELSE LinkKeyed(RS \cup {SourceRow(id, rid, source, job, Head(file))},
                            R, Tail(file), p, source, job, preset)

\* Phase A-2 and its share of Phase B: a record without a key always gets a
\* new records row, and its join row can then conflict with nothing.
RECURSIVE UpsertNoKey(_, _, _, _, _, _, _)
UpsertNoKey(db, used, file, p, source, job, preset) ==
    IF file = <<>> THEN db
    ELSE LET id   == FreshId(used)
             rsid == FreshId({rs.id : rs \in db.rs})
         IN  IF KeyOf(Head(file), preset) # NoKey
             THEN UpsertNoKey(db, used, Tail(file), p, source, job, preset)
             ELSE UpsertNoKey(
                    [records |-> db.records \cup
                                   {[id |-> id, project |-> p, match_key |-> NoKey]},
                     rs |-> db.rs \cup {SourceRow(rsid, id, source, job, Head(file))}],
                    used \cup {id}, Tail(file), p, source, job, preset)

\* RecordRepo.upsert_and_link on tables R, RS: the tables at its commit.
upsert_and_link(R, RS, used, file, p, source, job, preset) ==
    LET R1 == UpsertKeyed(R, used, file, p, preset)
        RS1 == LinkKeyed(RS, R1, file, p, source, job, preset)
    IN  UpsertNoKey([records |-> R1, rs |-> RS1],
                    used \cup {r.id : r \in R1}, file, p, source, job, preset)

\* ------------------------------------------------------- cluster_builder
\* match_keys._PRESET_TO_CONFIG / StrategyConfig.from_preset; an unknown
\* preset gets the dataclass defaults.
from_preset(preset) ==
    IF preset \in {"doi_first_strict"}
    THEN [use_doi |-> TRUE, use_pmid |-> TRUE, use_title_year |-> FALSE,
          use_title_author_year |-> TRUE, use_fuzzy |-> FALSE]
    ELSE IF preset = "doi_first_medium"
    THEN [use_doi |-> TRUE, use_pmid |-> TRUE, use_title_year |-> TRUE,
          use_title_author_year |-> FALSE, use_fuzzy |-> FALSE]
    ELSE IF preset = "strict"
    THEN [use_doi |-> FALSE, use_pmid |-> FALSE, use_title_year |-> FALSE,
          use_title_author_year |-> TRUE, use_fuzzy |-> FALSE]
    ELSE IF preset \in {"medium", "loose"}
    THEN [use_doi |-> FALSE, use_pmid |-> FALSE, use_title_year |-> TRUE,
          use_title_author_year |-> FALSE, use_fuzzy |-> FALSE]
    ELSE [use_doi |-> TRUE, use_pmid |-> TRUE, use_title_year |-> TRUE,
          use_title_author_year |-> TRUE, use_fuzzy |-> FALSE]

\* The rows of a query result, listed by id.
RECURSIVE SortById(_)
SortById(S) ==
    IF S = {} THEN <<>>
    ELSE LET m == CHOOSE x \in S : \A y \in S : x.id <= y.id
         IN  <<m>> \o SortById(S \ {m})

\* list.insert at the place sorted() gives s: behind the elements whose id
\* is not larger.
RECURSIVE InsertById(_, _)
InsertById(sorted, s) ==
    IF sorted = <<>> THEN <<s>>
    ELSE IF s.id < Head(sorted).id THEN <<s>> \o sorted
    ELSE <<Head(sorted)>> \o InsertById(Tail(sorted), s)

\* The list left in the order it came in.
Unsorted(sources) == sources

\* sorted(sources, key=lambda s: s.id)
RECURSIVE sorted_sources(_)
sorted_sources(sources) ==
    IF sources = <<>> THEN <<>>
    ELSE InsertById(sorted_sources(SubSeq(sources, 1, Len(sources) - 1)),
                    sources[Len(sources)])

\* _UnionFind.__init__
UnionFindInit(ids) ==
    [parent |-> [i \in ids |-> i], rank |-> [i \in ids |-> 0],
     tier |-> [i \in ids |-> 0], basis |-> [i \in ids |-> "none"]]

\* _UnionFind.find (path compression changes no root)
RECURSIVE find(_, _)
find(uf, x) == IF uf.parent[x] = x THEN x ELSE find(uf, uf.parent[x])

\* _UnionFind.union, after the two finds: rb is attached under ra; the tier
\* and basis of the new root ra are replaced when the uniting tier is more
\* precise or ra had none.
Attach(uf, ra, rb, tier, basis) ==
    [parent |-> [uf.parent EXCEPT ![rb] = ra],
     rank |-> IF uf.rank[ra] = uf.rank[rb]
              THEN [uf.rank EXCEPT ![ra] = @ + 1] ELSE uf.rank,
     tier |-> IF tier < uf.tier[ra] \/ uf.tier[ra] = 0
              THEN [uf.tier EXCEPT ![ra] = tier] ELSE uf.tier,
     basis |-> IF tier < uf.tier[ra] \/ uf.tier[ra] = 0
               THEN [uf.basis EXCEPT ![ra] = basis] ELSE uf.basis]

\* Union by rank: the root of lower rank goes under the other.
Link(uf, r1, r2, tier, basis) ==
    IF r1 = r2 THEN uf
    ELSE IF uf.rank[r1] < uf.rank[r2] THEN Attach(uf, r2, r1, tier, basis)
    ELSE Attach(uf, r1, r2, tier, basis)

\* _UnionFind.union
union(uf, a, b, tier, basis) == Link(uf, find(uf, a), find(uf, b), tier, basis)

\* The key functions of the four exact passes ("" when a field is missing).
PassKey(pass, s) ==
    IF pass = "tier1_doi" THEN s.match_doi
    ELSE IF pass = "tier1_pmid" THEN s.pmid
    ELSE IF pass = "tier2_title_year"
    THEN IF s.norm_title # "" /\ s.match_year # 0
         THEN s.norm_title \o "|" \o ToString(s.match_year) ELSE ""
    ELSE IF s.norm_title # "" /\ s.norm_first_author # "" /\ s.match_year # 0
         THEN s.norm_title \o "|" \o s.norm_first_author \o "|" \o ToString(s.match_year)
         ELSE ""

PassTier(pass) == IF pass \in {"tier1_doi", "tier1_pmid"} THEN 1 ELSE 2

\* _union_by_key, the inner loop: union(first, other) for the later sources
\* with first's key.
RECURSIVE UnionGroup(_, _, _, _, _)
UnionGroup(uf, sources, first, i, pass) ==
    IF i > Len(sources) THEN uf
    ELSE IF PassKey(pass, sources[i]) = PassKey(pass, sources[first])
    THEN UnionGroup(union(uf, sources[first].id, sources[i].id, PassTier(pass), pass),
                    sources, first, i + 1, pass)
    ELSE UnionGroup(uf, sources, first, i + 1, pass)

\* Whether sources[i] opens a group: it has a key no earlier source has.
OpensGroup(sources, i, pass, k) ==
    k # "" /\ \A h \in 1..(i - 1) : PassKey(pass, sources[h]) # k

\* _union_by_key: the groups in the order their first source appears.
RECURSIVE union_by_key(_, _, _, _)
union_by_key(uf, sources, i, pass) ==
    IF i > Len(sources) THEN uf
    ELSE IF OpensGroup(sources, i, pass, PassKey(pass, sources[i]))
    THEN union_by_key(UnionGroup(uf, sources, i, i + 1, pass), sources, i + 1, pass)
    ELSE union_by_key(uf, sources, i + 1, pass)

\* One pass of compute_clusters, run when the config enables it.
ApplyPass(uf, sources, enabled, pass) ==
    IF enabled THEN union_by_key(uf, sources, 1, pass) ELSE uf

\* _pick_best: max() keeps the first source with the highest
\* (has_doi, has_title, has_abstract).
Score(s) ==
    (IF s.match_doi # "" THEN 4 ELSE 0) + (IF s.norm_title # "" THEN 2 ELSE 0)
    + (IF s.abstract # "" THEN 1 ELSE 0)

BestIndex(members) ==
    CHOOSE i \in 1..Len(members) :
        /\ \A k \in 1..Len(members) : Score(members[k]) <= Score(members[i])
        /\ \A k \in 1..(i - 1) : Score(members[k]) < Score(members[i])

pick_best(members) == members[BestIndex(members)]

\* A Cluster object.
Cluster(members, tier, basis) ==
    [representative |-> pick_best(members), members |-> members, match_tier |-> tier,
     match_basis |-> IF Len(members) = 1 /\ tier = 0 THEN "none" ELSE basis]

\* uf.clusters(ids) and the loop over its groups: one Cluster per root, in the
\* order of the roots' first members, members in id order.
RECURSIVE BuildClusters(_, _, _)
BuildClusters(uf, sources, i) ==
    IF i > Len(sources) THEN <<>>
    ELSE IF \E h \in 1..(i - 1) : find(uf, sources[h].id) = find(uf, sources[i].id)
    THEN BuildClusters(uf, sources, i + 1)
    ELSE <<Cluster(SelectSeq(sources, LAMBDA s : find(uf, s.id) = find(uf, sources[i].id)),
                   uf.tier[find(uf, sources[i].id)], uf.basis[find(uf, sources[i].id)])>>
         \o BuildClusters(uf, sources, i + 1)

\* The four exact passes in the order of compute_clusters.
RunPasses(sources, config) ==
    ApplyPass(
        ApplyPass(
            ApplyPass(
                ApplyPass(UnionFindInit({sources[i].id : i \in 1..Len(sources)}),
                          sources, config.use_doi, "tier1_doi"),
                sources, config.use_pmid, "tier1_pmid"),
            sources, config.use_title_year, "tier2_title_year"),
        sources, config.use_title_author_year, "tier2_title_author_year")

ClustersOf(sources, config) == BuildClusters(RunPasses(sources, config), sources, 1)

\* TieredClusterBuilder.compute_clusters
compute_clusters(sources, config) == ClustersOf(sorted_sources(sources), config)

\* dedup_service._derive_match_key for representative rep and basis.
KeyFor(rep, basis) ==
    IF basis = "tier1_doi" /\ rep.match_doi # "" THEN "doi:" \o rep.match_doi
    ELSE IF basis = "tier1_pmid" /\ rep.pmid # "" THEN "pmid:" \o rep.pmid
    ELSE IF basis = "tier2_title_year" /\ rep.norm_title # "" /\ rep.match_year # 0
    THEN "ty:" \o rep.norm_title \o "|" \o ToString(rep.match_year)
    ELSE IF /\ basis = "tier2_title_author_year" /\ rep.norm_title # ""
            /\ rep.norm_first_author # "" /\ rep.match_year # 0
    THEN "tay:" \o rep.norm_title \o "|" \o rep.norm_first_author \o "|"
         \o ToString(rep.match_year)
    ELSE "auto:" \o ToString(rep.id)

derive_match_key(cluster) == KeyFor(cluster.representative, cluster.match_basis)

\* ------------------------------------------------------- overlap_detector
\* The detector works on the record_sources rows themselves: record_source_id
\* is id, doi is match_doi, first_author is norm_first_author, and norm_title
\* is shorter than 15 characters, so title_prefix is norm_title.  No row
\* carries a volume, so volume_ok holds for every pair.  The union-find is the
\* one of cluster_builder (tier 0 is "no tier stored for this root").
IdKey(field, s) == IF field = "doi" THEN s.match_doi ELSE s.pmid

\* detect, pass 1, one bucket: union(first, other) for the later members.
RECURSIVE IdBucket(_, _, _, _, _)
IdBucket(uf, recs, first, i, field) ==
    IF i > Len(recs) THEN uf
    ELSE IF IdKey(field, recs[i]) = IdKey(field, recs[first])
    THEN IdBucket(union(uf, recs[first].id, recs[i].id, 1, field),
                  recs, first, i + 1, field)
    ELSE IdBucket(uf, recs, first, i + 1, field)

OpensIdBucket(recs, i, field, k) ==
    k # "" /\ \A h \in 1..(i - 1) : IdKey(field, recs[h]) # k

\* detect, pass 1: the DOI (or PMID) buckets in the order they were opened.
RECURSIVE IdBuckets(_, _, _, _)
IdBuckets(uf, recs, i, field) ==
    IF i > Len(recs) THEN uf
    ELSE IF OpensIdBucket(recs, i, field, IdKey(field, recs[i]))
    THEN IdBuckets(IdBucket(uf, recs, i, i + 1, field), recs, i + 1, field)
    ELSE IdBuckets(uf, recs, i + 1, field)

\* The blocking key (title_prefix, year); <<>> for a row that joins no bucket
\* ("year" is a selected field, so a row without a year is left out).
TitleYearKey(s) ==
    IF s.norm_title # "" /\ s.match_year # 0 THEN <<s.norm_title, s.match_year>> ELSE <<>>

\* _year_match with year_tolerance = 0
year_match(ya, yb) == ya # 0 /\ yb # 0 /\ ya = yb

\* The body of the pair loop of _match_title_year_block (default fields).
MatchPair(uf, ra, rb) ==
    IF find(uf, ra.id) = find(uf, rb.id) THEN uf
    ELSE IF ra.norm_title # rb.norm_title \/ ra.norm_title = "" THEN uf
    ELSE IF ~year_match(ra.match_year, rb.match_year) THEN uf
    ELSE IF ra.norm_first_author # "" /\ ra.norm_first_author = rb.norm_first_author
    THEN union(uf, ra.id, rb.id, 2, "title_year_author_volume")
    ELSE union(uf, ra.id, rb.id, 4, "title_year")

\* _match_title_year_block: every pair a < b of the bucket.
RECURSIVE match_title_year_block(_, _, _, _)
match_title_year_block(uf, bucket, a, b) ==
    IF a > Len(bucket) THEN uf
    ELSE IF b > Len(bucket) THEN match_title_year_block(uf, bucket, a + 1, a + 2)
    ELSE match_title_year_block(MatchPair(uf, bucket[a], bucket[b]), bucket, a, b + 1)

OpensTitleYearBucket(recs, i, k) ==
    k # <<>> /\ \A h \in 1..(i - 1) : TitleYearKey(recs[h]) # k

SameTitleYear(recs, k) == SelectSeq(recs, LAMBDA s : TitleYearKey(s) = k)

\* detect, pass 2: the title-year buckets in the order they were opened.
RECURSIVE TitleYearBuckets(_, _, _)
TitleYearBuckets(uf, recs, i) ==
    IF i > Len(recs) THEN uf
    ELSE IF OpensTitleYearBucket(recs, i, TitleYearKey(recs[i]))
    THEN TitleYearBuckets(
            match_title_year_block(uf, SameTitleYear(recs, TitleYearKey(recs[i])), 1, 2),
            recs, i + 1)
    ELSE TitleYearBuckets(uf, recs, i + 1)

\* A DetectedCluster; tier_info is (5, "unknown") for a root without a tier.
DetectedCluster(members, tier, basis) ==
    [records |-> members, tier |-> IF tier = 0 THEN 5 ELSE tier,
     match_basis |-> IF tier = 0 THEN "unknown" ELSE basis]

GroupOf(uf, recs, root) == SelectSeq(recs, LAMBDA s : find(uf, s.id) = root)

\* detect, "collect clusters": the groups of two or more, in the order of
\* their first members in the list.
RECURSIVE CollectClusters(_, _, _)
CollectClusters(uf, recs, i) ==
    IF i > Len(recs) THEN <<>>
    ELSE IF \/ \E h \in 1..(i - 1) : find(uf, recs[h].id) = find(uf, recs[i].id)
            \/ Len(GroupOf(uf, recs, find(uf, recs[i].id))) < 2
    THEN CollectClusters(uf, recs, i + 1)
    ELSE <<DetectedCluster(GroupOf(uf, recs, find(uf, recs[i].id)),
                           uf.tier[find(uf, recs[i].id)], uf.basis[find(uf, recs[i].id)])>>
         \o CollectClusters(uf, recs, i + 1)

DetectPasses(recs) ==
    TitleYearBuckets(
        IdBuckets(IdBuckets(UnionFindInit({recs[i].id : i \in 1..Len(recs)}),
                            recs, 1, "doi"),
                  recs, 1, "pmid"),
        recs, 1)

\* min(str(r.record_source_id) for r in c.records); the string of a UUID has
\* a fixed width, so the least string is that of the least id.
MinMember(c) == Min({c.records[i].id : i \in 1..Len(c.records)})

RECURSIVE InsertCluster(_, _)
InsertCluster(sorted, c) ==
    IF sorted = <<>> THEN <<c>>
    ELSE IF MinMember(c) < MinMember(Head(sorted)) THEN <<c>> \o sorted
    ELSE <<Head(sorted)>> \o InsertCluster(Tail(sorted), c)

\* clusters.sort(key=lambda c: min(str(r.record_source_id) for r in c.records))
RECURSIVE SortClusters(_)
SortClusters(cs) ==
    IF cs = <<>> THEN <<>>
    ELSE InsertCluster(SortClusters(SubSeq(cs, 1, Len(cs) - 1)), cs[Len(cs)])

\* OverlapDetector(OverlapConfig.default()).detect
detect(recs) ==
    IF Len(recs) < 2 THEN <<>>
    ELSE SortClusters(CollectClusters(DetectPasses(recs), recs, 1))

\* ord(str(id)[0]): the first hexadecimal digit of the UUID the id stands
\* for.  The digits grow with the ids, and the ids 2k-1 and 2k stand for two
\* UUIDs that begin with the same digit.
first_char(id) == (id + 1) \div 2

\* _richness_score; the last component is -ord(str(r.record_source_id)[0]).
richness_score(r) ==
    <<IF r.match_doi # "" THEN 1 ELSE 0, IF r.pmid # "" THEN 1 ELSE 0,
      IF r.norm_title # "" THEN 1 ELSE 0, Len(r.abstract), 0 - first_char(r.id)>>

\* Python's tuple order.
RECURSIVE TupleLess(_, _)
TupleLess(a, b) ==
    IF a = <<>> THEN b # <<>>
    ELSE IF b = <<>> THEN FALSE
    ELSE IF Head(a) # Head(b) THEN Head(a) < Head(b)
    ELSE TupleLess(Tail(a), Tail(b))

\* select_representative: max() keeps the first of the richest records.
select_representative(recs) ==
    recs[CHOOSE i \in 1..Len(recs) :
            /\ \A k \in 1..Len(recs) :
                   ~TupleLess(richness_score(recs[i]), richness_score(recs[k]))
            /\ \A k \in 1..(i - 1) :
                   TupleLess(richness_score(recs[k]), richness_score(recs[i]))]

\* overlap_cluster_members rows of one cluster.
MemberRows(recs, rep) ==
    {[record_source_id |-> r.id, source_id |-> r.source_id,
      role |-> IF r.id = rep.id THEN "canonical" ELSE "duplicate",
      added_by |-> "auto"] : r \in SeqToSet(recs)}

\* _persist_cluster: the overlap_clusters row with its members; locked and
\* origin take the column defaults of migration 005.
persist_cluster(id, p, job, scope, recs, tier, basis) ==
    [id |-> id, project |-> p, job_id |-> job, scope |-> scope, match_tier |-> tier,
     match_basis |-> basis, locked |-> FALSE, origin |-> "auto",
     members |-> MemberRows(recs, select_representative(recs))]

SourcesOf(recs) == {recs[i].source_id : i \in 1..Len(recs)}

\* ------------------------------------------------------------------ state
VARIABLES
    jobs,            \* import_jobs / dedup_jobs rows with their worker's position
    records,         \* records table (committed)
    record_sources,  \* record_sources table (committed)
    match_log,       \* match_log table (committed)
    created,         \* match_strategies rows that exist
    is_active,       \* match_strategies.is_active = TRUE
    activating,      \* create_strategy requests between create and set_active
    locks,           \* pg advisory locks: key -> job holding it, 0 when free
    txn,             \* per job: the open transaction's uncommitted view
    clusters,        \* overlap_clusters with their members (committed)
    started,         \* number of jobs created so far in this run
    lib              \* a helper exercised on its own: its object or its
                     \* arguments and result; in SpecStart the start
                     \* requests between check and insert; else NoLib

vars == <<jobs, records, record_sources, match_log, created, is_active,
          activating, locks, txn, clusters, started, lib>>

\* The tables, the locks and the workers of the application.
app == <<jobs, records, record_sources, match_log, created, is_active,
         activating, locks, txn, clusters, started>>

\* No helper is exercised on its own.
NoLib == [kind |-> "none"]

JobIds == 1..Len(jobs)

NoTxn == [open |-> FALSE]

\* Rows of one project.
ProjectRecords(R, p) == {r \in R : r.project = p}

ProjectSources(RS, R, p) ==
    {rs \in RS : \E r \in R : r.id = rs.record_id /\ r.project = p}

\* StrategyRepo.get_active
get_active(p) ==
    {s \in created : StrategyProject(s) = p /\ s \in is_active}

\* An import job that has run to its end (see ImportSetCompletedRaises).
DoneImport(p, source, file) ==
    [kind |-> "import", project |-> p, source |-> source, file |-> file,
     strategy |-> "", status |-> "failed", pc |-> "done",
     preset |-> "doi_first_strict", error_msg |-> "safe_msg",
     merges |-> -1, clusters_created |-> -1, clusters_deleted |-> -1]

\* The tables after one more import under the default preset.
ImportInto(db, file, p, source, job) ==
    upsert_and_link(db.records, db.rs, {r.id : r \in db.records}, file, p, source,
                    job, "doi_first_strict")

\* A project that has already taken two uploads: <<PA, PB>> into s1 as job 1
\* and <<PN, PC>> into s2 as job 2.
Preloaded ==
    ImportInto(ImportInto([records |-> {}, rs |-> {}], <<PA, PB>>, "P1", "s1", 1),
               <<PN, PC>>, "P1", "s2", 2)

\* The system with one project strategy st1 active, and either an empty
\* database or the one the two uploads above leave.
InitState(pre, strategies) ==
    /\ jobs = IF pre THEN <<DoneImport("P1", "s1", <<PA, PB>>),
                            DoneImport("P1", "s2", <<PN, PC>>)>>
              ELSE <<>>
    /\ records = IF pre THEN Preloaded.records ELSE {}
    /\ record_sources = IF pre THEN Preloaded.rs ELSE {}
    /\ match_log = {}
    /\ created = strategies
    /\ is_active = {"st1"}
    /\ activating = {}
    /\ locks = [k \in LockKeys |-> 0]
    /\ txn = IF pre THEN <<NoTxn, NoTxn>> ELSE <<>>
    /\ clusters = {}
    /\ started = 0

\* The project has its seeded default strategy only.
InitWith(pre) == InitState(pre, {"st1"})

Init == (\E pre \in BOOLEAN : InitWith(pre)) /\ lib = NoLib

\* --------------------------------------------------------- advisory lock
\* A lock call that reports success to every caller.
AlwaysAcquired(p) == TRUE

\* locks.try_acquire_project_lock (pg_try_advisory_lock): TRUE when the key
\* is free; it never waits.
try_acquire_project_lock(p) == locks[derive_project_lock_key(p)] = 0

LockTaken(j, p) == [locks EXCEPT ![derive_project_lock_key(p)] = j]

\* A release call that leaves the lock where it is.
ReleaseNothing(j, p) == locks

\* locks.release_project_lock (pg_advisory_unlock)
release_project_lock(j, p) ==
    IF locks[derive_project_lock_key(p)] = j
    THEN [locks EXCEPT ![derive_project_lock_key(p)] = 0]
    ELSE locks

\* ----------------------------------------------------------------- import
UsedRecordIds ==
    {r.id : r \in records} \cup
    UNION {{r.id : r \in txn[j].records}
             : j \in {i \in 1..Len(txn) : txn[i].open /\ jobs[i].kind = "dedup"}}

\* A new job row.  merges, clusters_created and clusters_deleted are the
\* nullable counters of dedup_jobs (-1 is NULL); no import writes them.
NewJob(kind, p, source, file, strategy) ==
    [kind |-> kind, project |-> p, source |-> source, file |-> file,
     strategy |-> strategy, status |-> "pending", pc |-> "start",
     preset |-> "", error_msg |-> "",
     merges |-> -1, clusters_created |-> -1, clusters_deleted |-> -1]

\* start_import without the source check.
AnySourceAccepted(p, source) == TRUE

\* routers/imports.start_import: 404 unless the source is one of the project's.
SourceInProject(p, source) == SourceProject(source) = p

\* POST /projects/{id}/imports: creates the job row, schedules process_import.
StartImport ==
    \E u \in Uploads :
        /\ started < MaxJobs
        /\ SourceInProject(u[1], u[2])
        /\ jobs' = Append(jobs, NewJob("import", u[1], u[2], u[3], ""))
        /\ txn' = Append(txn, NoTxn)
        /\ started' = started + 1
        /\ UNCHANGED <<records, record_sources, match_log, created, is_active,
                       activating, locks, clusters, lib>>

\* _run_import, first session: set_processing, parse_file, and with no valid
\* record set_failed; otherwise the active strategy's preset is read.
ImportParse(j) ==
    /\ jobs[j].kind = "import" /\ jobs[j].pc = "start"
    /\ IF jobs[j].file = <<>>
       THEN jobs' = [jobs EXCEPT ![j].status = "failed", ![j].pc = "done",
                                 ![j].error_msg = "parse_summary"]
       ELSE jobs' = [jobs EXCEPT ![j].status = "processing", ![j].pc = "lock",
                        ![j].preset =
                            IF get_active(jobs[j].project) = {}
                            THEN "doi_first_strict"
                            ELSE StrategyPreset(CHOOSE s \in get_active(jobs[j].project) : TRUE)]
    /\ UNCHANGED <<records, record_sources, match_log, created, is_active,
                   activating, locks, txn, clusters, started, lib>>

\* An import that goes on to its write whether it got the lock or not.
ImportLockProceeds(j) ==
    /\ jobs[j].kind = "import" /\ jobs[j].pc = "lock"
    /\ locks' = IF try_acquire_project_lock(jobs[j].project)
                THEN LockTaken(j, jobs[j].project) ELSE locks
    /\ jobs' = [jobs EXCEPT ![j].pc = "write"]
    /\ UNCHANGED <<records, record_sources, match_log, created, is_active,
                   activating, txn, clusters, started, lib>>

\* _run_import: try_acquire_project_lock; without the lock the job fails.
ImportLock(j) ==
    /\ jobs[j].kind = "import" /\ jobs[j].pc = "lock"
    /\ IF try_acquire_project_lock(jobs[j].project)
       THEN /\ locks' = LockTaken(j, jobs[j].project)
            /\ jobs' = [jobs EXCEPT ![j].pc = "write"]
       ELSE /\ locks' = locks
            /\ jobs' = [jobs EXCEPT ![j].status = "failed", ![j].pc = "done",
                                    ![j].error_msg = "lock_busy"]
    /\ UNCHANGED <<records, record_sources, match_log, created, is_active,
                   activating, txn, clusters, started, lib>>

\* RecordRepo.upsert_and_link under the lock, ending in its own commit.
ImportWrite(j) ==
    /\ jobs[j].kind = "import" /\ jobs[j].pc = "write"
    /\ LET db == upsert_and_link(records, record_sources, UsedRecordIds,
                                 jobs[j].file, jobs[j].project, jobs[j].source,
                                 j, jobs[j].preset)
       IN  /\ records' = db.records
           /\ record_sources' = db.rs
    /\ jobs' = [jobs EXCEPT ![j].pc = "complete"]
    /\ UNCHANGED <<match_log, created, is_active, activating, locks, txn, clusters, started, lib>>

\* ImportRepo.set_completed(db, job_id, record_count) takes no warning_msg:
\* the call at import_service.py:113 raises TypeError, the except branch
\* records the fixed "Database error during import" message.
ImportSetCompletedRaises(j) ==
    /\ jobs[j].kind = "import" /\ jobs[j].pc = "complete"
    /\ jobs' = [jobs EXCEPT ![j].status = "failed", ![j].pc = "release",
                            ![j].error_msg = "safe_msg"]
    /\ UNCHANGED <<records, record_sources, match_log, created, is_active,
                   activating, locks, txn, clusters, started, lib>>

\* finally: release_project_lock.
ImportRelease(j) ==
    /\ jobs[j].kind = "import" /\ jobs[j].pc = "release"
    /\ locks' = release_project_lock(j, jobs[j].project)
    /\ jobs' = [jobs EXCEPT ![j].pc = "done"]
    /\ UNCHANGED <<records, record_sources, match_log, created, is_active,
                   activating, txn, clusters, started, lib>>

\* ------------------------------------------------------------------ dedup
\* DedupJobRepo.get_running: the project's dedup_jobs rows (dedup and overlap
\* runs share the table) that are pending or running.
get_running(p) ==
    {j \in JobIds : /\ jobs[j].kind \in {"dedup", "overlap"}
                    /\ jobs[j].project = p
                    /\ jobs[j].status \in {"pending", "running"}}

\* StrategyRepo.get_by_id(db, project_id, strategy_id)
get_by_id(p, s) == s \in created /\ StrategyProject(s) = p

\* POST /projects/{id}/dedup-jobs: 404 for a strategy of another project,
\* 409 while a dedup_jobs row is pending or running, else the row is created
\* and run_dedup scheduled.
StartDedup ==
    \E p \in Projects, s \in StrategyIds :
        /\ started < MaxJobs
        /\ get_by_id(p, s)
        /\ get_running(p) = {}
        /\ jobs' = Append(jobs, NewJob("dedup", p, "", <<>>, s))
        /\ txn' = Append(txn, NoTxn)
        /\ started' = started + 1
        /\ UNCHANGED <<records, record_sources, match_log, created, is_active,
                       activating, locks, clusters, lib>>

\* run_dedup / run_overlap_detection: try_acquire_project_lock; without the
\* lock a new session records the failure and the task returns.
JobLock(j) ==
    /\ jobs[j].kind \in {"dedup", "overlap"} /\ jobs[j].pc = "start"
    /\ IF try_acquire_project_lock(jobs[j].project)
       THEN /\ locks' = LockTaken(j, jobs[j].project)
            /\ jobs' = [jobs EXCEPT ![j].pc = "set_running"]
       ELSE /\ locks' = locks
            /\ jobs' = [jobs EXCEPT ![j].status = "failed", ![j].pc = "done",
                                    ![j].error_msg = "lock_busy"]
    /\ UNCHANGED <<records, record_sources, match_log, created, is_active,
                   activating, txn, clusters, started, lib>>

\* A worker that goes on to its work without set_running.
JobSkipsRunning(j) ==
    /\ jobs[j].kind \in {"dedup", "overlap"} /\ jobs[j].pc = "set_running"
    /\ jobs' = [jobs EXCEPT ![j].pc = "work"]
    /\ UNCHANGED <<records, record_sources, match_log, created, is_active,
                   activating, locks, txn, clusters, started, lib>>

\* DedupJobRepo.set_running (its own commit).
JobSetRunning(j) ==
    /\ jobs[j].kind \in {"dedup", "overlap"} /\ jobs[j].pc = "set_running"
    /\ jobs' = [jobs EXCEPT ![j].status = "running", ![j].pc = "work"]
    /\ UNCHANGED <<records, record_sources, match_log, created, is_active,
                   activating, locks, txn, clusters, started, lib>>

\* match_log rows of the dedup jobs of project p.
ProjectLog(L, p) == {l \in L : jobs[l.dedup_job_id].project = p}

\* A match_log_entries element / a match_log row.
LogRow(job, src, new, key, basis) ==
    [dedup_job_id |-> job, record_src_id |-> src.id, old_record_id |-> src.record_id,
     new_record_id |-> new, match_key |-> key, match_basis |-> basis,
     action |-> IF src.record_id = new THEN "unchanged" ELSE "merged"]

\* An UPDATE of the members that writes the canonical record's DOI as well.
RepointedWithDoi(RS, memberIds, canonical) ==
    {IF rs.id \in memberIds
     THEN [rs EXCEPT !.record_id = canonical, !.match_doi = "d1"] ELSE rs : rs \in RS}

\* UPDATE record_sources SET record_id = canonical WHERE id IN members
Repointed(RS, memberIds, canonical) ==
    {IF rs.id \in memberIds THEN [rs EXCEPT !.record_id = canonical] ELSE rs : rs \in RS}

\* uq_record_sources_record_source on the rows as the UPDATE leaves them.
UniqueViolation(RS) ==
    \E a, b \in RS : /\ a.id # b.id
                     /\ a.record_id = b.record_id
                     /\ a.source_id = b.source_id

\* An isolated cluster passed over without log entries.
KeepIsolatedUnlogged(view, members, job) == view

\* An isolated cluster: its sources keep their records, one log entry each.
KeepIsolated(view, members, job) ==
    [view EXCEPT !.entries =
        @ \cup {LogRow(job, m, m.record_id, NoKey, "none") : m \in members}]

\* The loop body counting every member of a matched cluster as a merge,
\* moved or not.
PointMembersCountsAll(view, members, canonical, key, basis, job) ==
    IF UniqueViolation(Repointed(view.rs, {m.id : m \in members}, canonical))
    THEN [view EXCEPT !.error = TRUE]
    ELSE [view EXCEPT !.rs = Repointed(view.rs, {m.id : m \in members}, canonical),
                      !.entries = @ \cup {LogRow(job, m, canonical, key, basis)
                                            : m \in members},
                      !.merges = @ + Cardinality(members)]

\* The rest of the loop body once the canonical record is known: the UPDATE
\* of the members (which raises on the unique index) and the log entries.
PointMembers(view, members, canonical, key, basis, job) ==
    IF UniqueViolation(Repointed(view.rs, {m.id : m \in members}, canonical))
    THEN [view EXCEPT !.error = TRUE]
    ELSE [view EXCEPT !.rs = Repointed(view.rs, {m.id : m \in members}, canonical),
                      !.entries = @ \cup {LogRow(job, m, canonical, key, basis)
                                            : m \in members},
                      !.merges = @ + Cardinality({m \in members :
                                                    m.record_id # canonical})]

\* A new canonical record for the cluster (db.add, flush).
WithNewRecord(view, id, p, key) ==
    [view EXCEPT !.records = @ \cup {[id |-> id, project |-> p, match_key |-> key]},
                 !.used = @ \cup {id},
                 !.clusters_created = @ + 1]

\* The loop body for a matched cluster: the record with the cluster's key is
\* looked up, created when there is none, and the members pointed at it.
MergeCluster(view, c, existing, key, p, job) ==
    IF existing # {}
    THEN PointMembers(view, SeqToSet(c.members), (CHOOSE r \in existing : TRUE).id,
                      key, c.match_basis, job)
    ELSE PointMembers(WithNewRecord(view, FreshId(view.used), p, key),
                      SeqToSet(c.members), FreshId(view.used), key, c.match_basis, job)

ExistingRecords(R, p, key) == {r \in R : r.project = p /\ r.match_key = key}

ResolveOne(view, c, key, p, job) ==
    IF c.match_tier = 0 THEN KeepIsolated(view, SeqToSet(c.members), job)
    ELSE MergeCluster(view, c, ExistingRecords(view.records, p, key), key, p, job)

\* Step 6 of _run_clustering, the loop over the clusters: the transaction's
\* view after the loop; error is set by the statement that raises.
RECURSIVE ResolveClusters(_, _, _, _, _)
ResolveClusters(view, cs, i, p, job) ==
    IF i > Len(cs) \/ view.error THEN view
    ELSE ResolveClusters(ResolveOne(view, cs[i], derive_match_key(cs[i]), p, job),
                         cs, i + 1, p, job)

\* The view _run_clustering has built when its loop ends or raises.
Resolved(R, RS, used, config, p, job) ==
    ResolveClusters([records |-> R, rs |-> RS, entries |-> {}, used |-> used,
                     merges |-> 0, clusters_created |-> 0, error |-> FALSE],
                    compute_clusters(SortById(RS), config), 1, p, job)

\* The config _run_clustering resolves for the job's strategy.
JobConfig(j) ==
    IF HasConfigDict(jobs[j].strategy) THEN StrategyConfigDict(jobs[j].strategy)
    ELSE from_preset(StrategyPreset(jobs[j].strategy))

\* The except branch as it would run were the transaction still usable:
\* set_failed's commit publishes the writes made so far with status failed.
ExceptCommitsPartial(j, view) ==
    /\ jobs' = [jobs EXCEPT ![j].status = "failed", ![j].pc = "release"]
    /\ txn' = [txn EXCEPT ![j] = NoTxn]
    /\ records' = (records \ ProjectRecords(records, jobs[j].project)) \cup view.records
    /\ record_sources' =
          (record_sources \ ProjectSources(record_sources, records, jobs[j].project))
          \cup view.rs
    /\ match_log' = match_log

\* except Exception in _do_dedup after a database error: the transaction is
\* aborted, so set_failed on the same session raises as well; nothing is
\* committed, the row keeps status running, and the error leaves _do_dedup.
ExceptAfterDbError(j, view) ==
    /\ jobs' = [jobs EXCEPT ![j].pc = "release"]
    /\ txn' = [txn EXCEPT ![j] = NoTxn]
    /\ UNCHANGED <<records, record_sources, match_log>>

\* Steps 1-6 with the orphan DELETE moved in front of the match_log flush.
DedupResolvedOrphansFirst(j, p, view) ==
    IF view.error
    THEN ExceptAfterDbError(j, view)
    ELSE /\ jobs' = [jobs EXCEPT ![j].pc = "log"]
         /\ txn' = [txn EXCEPT ![j] =
                      [open |-> TRUE,
                       records |-> {r \in view.records :
                                       \E rs \in view.rs : rs.record_id = r.id},
                       rs |-> view.rs,
                       log |-> ProjectLog(match_log, p), entries |-> view.entries,
                       merges |-> view.merges,
                       clusters_created |-> view.clusters_created]]
         /\ UNCHANGED <<records, record_sources, match_log>>

\* Steps 1-6 with rows to cluster: on a database error the except branch,
\* else the transaction stays open with the resolved view.
DedupResolved(j, p, view) ==
    IF view.error
    THEN ExceptAfterDbError(j, view)
    ELSE /\ jobs' = [jobs EXCEPT ![j].pc = "log"]
         /\ txn' = [txn EXCEPT ![j] =
                      [open |-> TRUE, records |-> view.records, rs |-> view.rs,
                       log |-> ProjectLog(match_log, p), entries |-> view.entries,
                       merges |-> view.merges,
                       clusters_created |-> view.clusters_created]]
         /\ UNCHANGED <<records, record_sources, match_log>>

\* _run_clustering steps 1-6: load the project's record_sources, cluster,
\* resolve.  Without rows the job is completed at once.
DedupResolve(j) ==
    /\ jobs[j].kind = "dedup" /\ jobs[j].pc = "work"
    /\ IF ProjectSources(record_sources, records, jobs[j].project) = {}
       THEN /\ jobs' = [jobs EXCEPT ![j].status = "completed", ![j].pc = "set_active",
                                    ![j].merges = 0, ![j].clusters_created = 0,
                                    ![j].clusters_deleted = 0]
            /\ UNCHANGED <<records, record_sources, match_log, txn>>
       ELSE DedupResolved(j, jobs[j].project,
                Resolved(ProjectRecords(records, jobs[j].project),
                         ProjectSources(record_sources, records, jobs[j].project),
                         UsedRecordIds, JobConfig(j), jobs[j].project, j))
    /\ UNCHANGED <<created, is_active, activating, locks, clusters, started, lib>>

\* Step 7: the match_log rows are added and flushed.
DedupWriteLog(j) ==
    /\ jobs[j].kind = "dedup" /\ jobs[j].pc = "log"
    /\ txn' = [txn EXCEPT ![j].log = @ \cup txn[j].entries]
    /\ jobs' = [jobs EXCEPT ![j].pc = "orphans"]
    /\ UNCHANGED <<records, record_sources, match_log, created, is_active,
                   activating, locks, clusters, started, lib>>

\* A DELETE that finds no orphan.
OrphansNone(R, RS) == {}

\* The records of the project no record_sources row points to.
Orphans(R, RS) == {r \in R : r.id \notin {rs.record_id : rs \in RS}}

\* match_log.new_record_id REFERENCES records(id) without ON DELETE: a row
\* that names a record as new blocks the record's deletion.
ForeignKeyViolation(L, gone) == \E l \in L : l.new_record_id \in {r.id : r \in gone}

\* match_log.old_record_id REFERENCES records(id) ON DELETE SET NULL.
SetNullOld(L, gone) ==
    {IF l.old_record_id \in {r.id : r \in gone} THEN [l EXCEPT !.old_record_id = 0] ELSE l
       : l \in L}

\* Steps 8-10 for the orphans gone: the DELETE (which raises on the foreign
\* key), then DedupJobRepo.set_completed, whose commit publishes the whole
\* transaction.
DeleteAndComplete(j, p, gone) ==
    IF ForeignKeyViolation(txn[j].log, gone)
    THEN ExceptAfterDbError(j, txn[j])
    ELSE /\ records' = (records \ ProjectRecords(records, p)) \cup (txn[j].records \ gone)
         /\ record_sources' =
               (record_sources \ ProjectSources(record_sources, records, p))
               \cup txn[j].rs
         /\ match_log' = (match_log \ ProjectLog(match_log, p))
                         \cup SetNullOld(txn[j].log, gone)
         /\ txn' = [txn EXCEPT ![j] = NoTxn]
         /\ jobs' = [jobs EXCEPT ![j].status = "completed", ![j].pc = "set_active",
                                 ![j].merges = txn[j].merges,
                                 ![j].clusters_created = txn[j].clusters_created,
                                 ![j].clusters_deleted = Cardinality(gone)]

DedupDeleteOrphans(j) ==
    /\ jobs[j].kind = "dedup" /\ jobs[j].pc = "orphans"
    /\ DeleteAndComplete(j, jobs[j].project, Orphans(txn[j].records, txn[j].rs))
    /\ UNCHANGED <<created, is_active, activating, locks, clusters, started, lib>>

\* set_active without its first UPDATE: the target is activated, nothing is
\* deactivated.
ActivateOnly(p, s) == is_active \cup {x \in created : x = s /\ StrategyProject(x) = p}

\* StrategyRepo.set_active: every strategy of the project is deactivated,
\* then the target activated, in one transaction.  The first UPDATE locks the
\* project's rows, so concurrent calls run one after the other.
set_active(p, s) ==
    (is_active \ {x \in created : StrategyProject(x) = p})
    \cup {x \in created : x = s /\ StrategyProject(x) = p}

\* A set_active that raises with the session still usable: the except
\* branch's set_failed commits status failed over the completed row.
DedupSetActiveRaises(j) ==
    /\ jobs[j].kind = "dedup" /\ jobs[j].pc = "set_active"
    /\ jobs' = [jobs EXCEPT ![j].status = "failed", ![j].pc = "release"]
    /\ UNCHANGED <<records, record_sources, match_log, created, is_active, activating,
                   locks, txn, clusters, started, lib>>

\* _run_clustering returning after set_completed, without set_active.
DedupSetActiveSkipped(j) ==
    /\ jobs[j].kind = "dedup" /\ jobs[j].pc = "set_active"
    /\ jobs' = [jobs EXCEPT ![j].pc = "release"]
    /\ UNCHANGED <<records, record_sources, match_log, created, is_active, activating,
                   locks, txn, clusters, started, lib>>

\* The last statement of _run_clustering: StrategyRepo.set_active.
DedupSetActive(j) ==
    /\ jobs[j].kind = "dedup" /\ jobs[j].pc = "set_active"
    /\ is_active' = set_active(jobs[j].project, jobs[j].strategy)
    /\ jobs' = [jobs EXCEPT ![j].pc = "release"]
    /\ UNCHANGED <<records, record_sources, match_log, created, activating,
                   locks, txn, clusters, started, lib>>

\* finally: release_project_lock.
JobRelease(j) ==
    /\ jobs[j].kind \in {"dedup", "overlap"} /\ jobs[j].pc = "release"
    /\ locks' = release_project_lock(j, jobs[j].project)
    /\ jobs' = [jobs EXCEPT ![j].pc = "done"]
    /\ UNCHANGED <<records, record_sources, match_log, created, is_active,
                   activating, txn, clusters, started, lib>>

\* ---------------------------------------------------------------- overlap
\* POST /projects/{id}/overlaps/run: the same checks as start_dedup_job; the
\* run is tracked in a dedup_jobs row.
StartOverlap ==
    \E p \in Projects, s \in StrategyIds :
        /\ started < MaxJobs
        /\ get_by_id(p, s)
        /\ get_running(p) = {}
        /\ jobs' = Append(jobs, NewJob("overlap", p, "", <<>>, s))
        /\ txn' = Append(txn, NoTxn)
        /\ started' = started + 1
        /\ UNCHANGED <<records, record_sources, match_log, created, is_active,
                       activating, locks, clusters, lib>>

\* OverlapRepo.get_locked_cross_source_member_ids: the record_source ids that
\* are members of a locked cluster of the project.
get_locked_cross_source_member_ids(p) ==
    UNION {{m.record_source_id : m \in c.members}
             : c \in {d \in clusters : d.project = p /\ d.locked}}

\* DELETE ... WHERE project_id = p AND scope = 'cross_source' AND NOT locked
UnlockedCrossSource(p) ==
    {c \in clusters : c.project = p /\ c.scope = "cross_source" /\ ~c.locked}

\* _run_cross_source_detection steps 1-5b: load the rows, detect, delete the
\* unlocked cross-source clusters, read the locked members.  Without rows the
\* job is completed and the function returns.
OverlapDetect(j) ==
    /\ jobs[j].kind = "overlap" /\ jobs[j].pc = "work"
    /\ IF ProjectSources(record_sources, records, jobs[j].project) = {}
       THEN /\ jobs' = [jobs EXCEPT ![j].status = "completed", ![j].pc = "release",
                                    ![j].merges = 0, ![j].clusters_created = 0,
                                    ![j].clusters_deleted = 0]
            /\ txn' = txn
       ELSE /\ jobs' = [jobs EXCEPT ![j].pc = "persist"]
            /\ txn' = [txn EXCEPT ![j] =
                  [open |-> TRUE,
                   detected |-> detect(SortById(
                       ProjectSources(record_sources, records, jobs[j].project))),
                   deleted |-> {c.id : c \in UnlockedCrossSource(jobs[j].project)},
                   locked_ids |-> get_locked_cross_source_member_ids(jobs[j].project)]]
    /\ UNCHANGED <<records, record_sources, match_log, created, is_active,
                   activating, locks, clusters, started, lib>>

\* "Filter out records already covered by a locked cluster"
FreeRecords(recs, locked_ids) ==
    IF locked_ids # {} THEN SelectSeq(recs, LAMBDA r : r.id \notin locked_ids) ELSE recs

\* Step 6, the loop over the detected clusters: C with the persisted
\* cross-source clusters added.  A new id is one no cluster has and none had
\* when the transaction began.
RECURSIVE PersistCross(_, _, _, _, _, _, _)
RECURSIVE PersistFree(_, _, _, _, _, _, _, _)
PersistFree(C, dets, i, free, locked_ids, p, job, taken) ==
    IF locked_ids # {} /\ (Len(free) < 2 \/ Cardinality(SourcesOf(free)) < 2)
    THEN PersistCross(C, dets, i + 1, locked_ids, p, job, taken)
    ELSE PersistCross(
            C \cup {persist_cluster(FreshId(taken \cup {c.id : c \in C}), p, job,
                                    "cross_source", free, dets[i].tier,
                                    dets[i].match_basis)},
            dets, i + 1, locked_ids, p, job, taken)

PersistCross(C, dets, i, locked_ids, p, job, taken) ==
    IF i > Len(dets) THEN C
    ELSE IF Cardinality(SourcesOf(dets[i].records)) <= 1
    THEN PersistCross(C, dets, i + 1, locked_ids, p, job, taken)
    ELSE PersistFree(C, dets, i, FreeRecords(dets[i].records, locked_ids),
                     locked_ids, p, job, taken)

\* A cluster row another transaction has deleted and not yet committed: a
\* writer of that row waits for the commit.
RowLocked(cid) ==
    \E j \in JobIds : txn[j].open /\ jobs[j].kind = "overlap" /\ cid \in txn[j].deleted

\* cross_overlaps: the members of the clusters in N, summed.
RECURSIVE cross_overlaps(_)
cross_overlaps(N) ==
    IF N = {} THEN 0
    ELSE LET c == CHOOSE x \in N : TRUE
         IN  Cardinality(c.members) + cross_overlaps(N \ {c})

\* Steps 6-7: the clusters are persisted and DedupJobRepo.set_completed
\* commits the transaction with the run's counters.
OverlapPersist(j) ==
    /\ jobs[j].kind = "overlap" /\ jobs[j].pc = "persist"
    /\ clusters' = PersistCross({c \in clusters : c.id \notin txn[j].deleted},
                                txn[j].detected, 1, txn[j].locked_ids,
                                jobs[j].project, j, {c.id : c \in clusters})
    /\ jobs' = [jobs EXCEPT ![j].status = "completed", ![j].pc = "set_active",
                            ![j].merges = cross_overlaps(clusters' \ clusters),
                            ![j].clusters_created = Cardinality(clusters' \ clusters),
                            ![j].clusters_deleted = 0]
    /\ txn' = [txn EXCEPT ![j] = NoTxn]
    /\ UNCHANGED <<records, record_sources, match_log, created, is_active,
                   activating, locks, started, lib>>

\* StrategyRepo.set_active at the end of _run_cross_source_detection.
OverlapSetActive(j) ==
    /\ jobs[j].kind = "overlap" /\ jobs[j].pc = "set_active"
    /\ is_active' = set_active(jobs[j].project, jobs[j].strategy)
    /\ jobs' = [jobs EXCEPT ![j].pc = "release"]
    /\ UNCHANGED <<records, record_sources, match_log, created, activating,
                   locks, txn, clusters, started, lib>>

\* The within-source clusters of project p with a member from source.
OldWithinSource(p, source) ==
    {c \in clusters : /\ c.project = p /\ c.scope = "within_source"
                      /\ \E m \in c.members : m.source_id = source}

\* run_within_source_detection, the loop that persists the clusters of one
\* source.
RECURSIVE PersistWithin(_, _, _, _, _)
PersistWithin(C, dets, i, p, taken) ==
    IF i > Len(dets) THEN C
    ELSE IF Cardinality(SourcesOf(dets[i].records)) # 1
    THEN PersistWithin(C, dets, i + 1, p, taken)
    ELSE PersistWithin(
            C \cup {persist_cluster(FreshId(taken \cup {c.id : c \in C}), p, 0,
                                    "within_source", dets[i].records, dets[i].tier,
                                    dets[i].match_basis)},
            dets, i + 1, p, taken)

SourceRows(source) == {rs \in record_sources : rs.source_id = source}

\* run_within_source_detection(project_id, source_id) for a source of the
\* project: one transaction, no advisory lock.  With fewer than two rows it
\* returns at once.
WithinSourcePass ==
    \E source \in Sources :
        /\ Cardinality(SourceRows(source)) >= 2
        /\ clusters' = PersistWithin(
                clusters \ OldWithinSource(SourceProject(source), source),
                detect(SortById(SourceRows(source))), 1, SourceProject(source),
                {c.id : c \in clusters})
        /\ UNCHANGED <<jobs, records, record_sources, match_log, created, is_active,
                       activating, locks, txn, started, lib>>

\* POST /projects/{id}/overlaps/{cluster_id}/lock: lock_cluster sets the
\* flag, the router commits.
LockCluster ==
    \E c \in clusters, locked \in BOOLEAN :
        /\ ~RowLocked(c.id)
        /\ clusters' = (clusters \ {c}) \cup {[c EXCEPT !.locked = locked]}
        /\ UNCHANGED <<jobs, records, record_sources, match_log, created, is_active,
                       activating, locks, txn, started, lib>>

\* --------------------------------------------------------- manual linking
\* Bound on the overlap_clusters rows a manual link may add to.
MaxClusters == 2

\* The rows of the membership query for one record_source id: its
\* cross_source clusters.
CrossSourceWith(rsid) ==
    {c \in clusters : /\ c.scope = "cross_source"
                      /\ \E m \in c.members : m.record_source_id = rsid}

\* membership_by_id: the dict built from the query's rows keeps one row per
\* record_source id, the last the query returned; the query has no ORDER BY,
\* so for a record in several clusters any of them may be the one.  0 stands
\* for "no row" (cluster_id None).
MembershipsOf(ids) ==
    {mv \in [ids -> {0} \cup {c.id : c \in clusters}] :
        \A r \in ids : IF CrossSourceWith(r) = {} THEN mv[r] = 0
                       ELSE \E c \in CrossSourceWith(r) : mv[r] = c.id}

\* db.get(OverlapCluster, cid)
ClusterRow(cid) == CHOOSE c \in clusters : c.id = cid

\* sorted(cluster_ids, key=str) for the two ids of the merge case.  A cluster
\* id is a UUID, whose string form has a fixed width: the order of the
\* strings is the order of the ids.
sorted_ids(cluster_ids) ==
    <<Min(cluster_ids), Min(cluster_ids \ {Min(cluster_ids)})>>

\* The plan dict: unused keys are 0 or empty.
Plan(action, cluster_id, delete_cluster_id, origin, locked, member_ids) ==
    [action |-> action, cluster_id |-> cluster_id,
     delete_cluster_id |-> delete_cluster_id, origin |-> origin,
     locked |-> locked, member_ids |-> member_ids]

\* _plan_manual_link(memberships, locked_param); mv maps each requested id to
\* the cluster of its MembershipInfo.
plan_manual_link(ids, mv, locked_param) ==
    LET unclustered == {r \in ids : mv[r] = 0}
        cluster_ids == {mv[r] : r \in ids \ unclustered}
        create_new  == Plan("create_new", 0, 0, "manual", locked_param, ids)
    IN  IF Cardinality(cluster_ids) = 1 /\ unclustered = {}
        THEN Plan("noop", Min(cluster_ids), 0, "", locked_param, {})
        ELSE IF Cardinality(cluster_ids) = 2 /\ unclustered = {}
        THEN IF \A cid \in cluster_ids : ~ClusterRow(cid).locked
             THEN Plan("merge", sorted_ids(cluster_ids)[1], sorted_ids(cluster_ids)[2],
                       "mixed", locked_param, {})
             ELSE create_new
        ELSE IF Cardinality(cluster_ids) >= 3
        THEN create_new
        ELSE IF Cardinality(cluster_ids) = 1 /\ unclustered # {}
        THEN IF ClusterRow(Min(cluster_ids)).locked
             THEN create_new
             ELSE Plan("add_to_existing", Min(cluster_ids), 0,
                       IF ClusterRow(Min(cluster_ids)).origin = "auto" THEN "mixed"
                       ELSE ClusterRow(Min(cluster_ids)).origin,
                       locked_param, unclustered)
        ELSE create_new

\* The overlap_cluster_members rows manual_link_records adds for the ids:
\* role duplicate, the source looked up in record_sources.
UserMembers(ids) ==
    {[record_source_id |-> rs.id, source_id |-> rs.source_id, role |-> "duplicate",
      added_by |-> "user"]
        : rs \in {x \in record_sources : x.id \in ids}}

\* manual_link_records, step 3: the clusters after the plan is executed.
ManualLinked(plan, p) ==
    IF plan.action = "noop" THEN clusters
    ELSE IF plan.action = "merge"
    THEN LET keep == ClusterRow(plan.cluster_id)
             gone == ClusterRow(plan.delete_cluster_id)
             existing_in_keep == {m.record_source_id : m \in keep.members}
             moved == {[m EXCEPT !.added_by = "auto"] :
                          m \in {x \in gone.members :
                                    x.record_source_id \notin existing_in_keep}}
         IN  (clusters \ {keep, gone})
                \cup {[keep EXCEPT !.members = @ \cup moved, !.origin = plan.origin,
                                   !.locked = plan.locked]}
    ELSE IF plan.action = "add_to_existing"
    THEN LET cluster == ClusterRow(plan.cluster_id)
         IN  (clusters \ {cluster})
                \cup {[cluster EXCEPT !.members = @ \cup UserMembers(plan.member_ids),
                                      !.origin = plan.origin, !.locked = plan.locked]}
    ELSE clusters \cup
            {[id |-> FreshId({c.id : c \in clusters}), project |-> p, job_id |-> 0,
              scope |-> "cross_source", match_tier |-> 0, match_basis |-> "manual",
              locked |-> plan.locked, origin |-> plan.origin,
              members |-> UserMembers(plan.member_ids)]}

\* The plan can be carried out now: no row it writes is held by the
\* uncommitted DELETE of a running pass (the writer would wait for that
\* commit and then fail on the missing row), and a new cluster stays within
\* the bound.
CanExecute(plan) ==
    /\ plan.action = "merge"
          => ~RowLocked(plan.cluster_id) /\ ~RowLocked(plan.delete_cluster_id)
    /\ plan.action = "add_to_existing" => ~RowLocked(plan.cluster_id)
    /\ plan.action = "create_new" => Cardinality(clusters) < MaxClusters

\* The requests of project p: two or more record_sources rows of the project.
LinkRequests(p) ==
    {ids \in SUBSET {rs.id : rs \in ProjectSources(record_sources, records, p)} :
        Cardinality(ids) >= 2}

\* POST /projects/{id}/overlaps/manual-link: manual_link_records loads the
\* memberships, plans and executes; the router commits.
ManualLink ==
    \E p \in Projects, locked \in BOOLEAN :
        \E ids \in LinkRequests(p) :
            \E mv \in MembershipsOf(ids) :
                /\ CanExecute(plan_manual_link(ids, mv, locked))
                /\ clusters' = ManualLinked(plan_manual_link(ids, mv, locked), p)
                /\ UNCHANGED <<jobs, records, record_sources, match_log, created,
                               is_active, activating, locks, txn, started, lib>>

\* An answer that removes any member it finds, whoever added it.
RemovesAnyMember(p, cid, rsid) ==
    IF \E c \in clusters : c.id = cid /\ c.project = p
    THEN [rejected |-> FALSE,
          clusters |-> {[c EXCEPT !.members =
                            IF c.id = cid
                            THEN {m \in @ : m.record_source_id # rsid} ELSE @]
                          : c \in clusters}]
    ELSE [rejected |-> TRUE, clusters |-> clusters]

\* remove_cluster_member(project_id, cluster_id, record_source_id): the
\* answer (rejected = a ValueError, HTTP 400) and the clusters after it.
remove_cluster_member(p, cid, rsid) ==
    IF ~\E c \in clusters : c.id = cid /\ c.project = p
    THEN [rejected |-> TRUE, clusters |-> clusters]
    ELSE LET cluster == ClusterRow(cid)
             member  == {m \in cluster.members : m.record_source_id = rsid}
         IN  IF member = {} THEN [rejected |-> TRUE, clusters |-> clusters]
             ELSE IF \E m \in member : m.added_by # "user"
             THEN [rejected |-> TRUE, clusters |-> clusters]
             ELSE [rejected |-> FALSE,
                   clusters |-> (clusters \ {cluster})
                       \cup {[cluster EXCEPT !.members = @ \ member]}]

\* DELETE /projects/{id}/overlaps/{cluster_id}/members/{record_source_id}:
\* remove_cluster_member, then the router commits; after a rejection nothing
\* is written.
RemoveMember ==
    \E p \in Projects, cid \in {c.id : c \in clusters},
       rsid \in {rs.id : rs \in record_sources} :
        /\ ~RowLocked(cid)
        /\ clusters' = remove_cluster_member(p, cid, rsid).clusters
        /\ UNCHANGED <<jobs, records, record_sources, match_log, created, is_active,
                       activating, locks, txn, started, lib>>

\* ------------------------------------------------------------- strategies
\* The strategies a create request of the run makes: a preset and no config
\* dict.
PresetStrategies == {s \in StrategyIds : ~HasConfigDict(s)}

\* POST /projects/{id}/strategies: StrategyRepo.create commits the new row
\* with is_active = FALSE; with activate=true set_active follows.
CreateStrategy ==
    \E s \in PresetStrategies \ created, activate \in BOOLEAN :
        /\ created' = created \cup {s}
        /\ activating' = IF activate THEN activating \cup {s} ELSE activating
        /\ UNCHANGED <<jobs, records, record_sources, match_log, is_active, locks,
                       txn, clusters, started, lib>>

\* create_strategy, second call: StrategyRepo.set_active for activate=true.
CreateStrategyActivate ==
    \E s \in activating :
        /\ is_active' = set_active(StrategyProject(s), s)
        /\ activating' = activating \ {s}
        /\ UNCHANGED <<jobs, records, record_sources, match_log, created, locks,
                       txn, clusters, started, lib>>

\* PATCH /projects/{id}/strategies/{sid}/activate
ActivateStrategy ==
    \E p \in Projects, s \in StrategyIds :
        /\ get_by_id(p, s)
        /\ is_active' = set_active(p, s)
        /\ UNCHANGED <<jobs, records, record_sources, match_log, created, activating,
                       locks, txn, clusters, started, lib>>

Next ==
    \/ StartImport
    \/ \E j \in JobIds : ImportParse(j)
    \/ \E j \in JobIds : ImportLock(j)
    \/ \E j \in JobIds : ImportWrite(j)
    \/ \E j \in JobIds : ImportSetCompletedRaises(j)
    \/ \E j \in JobIds : ImportRelease(j)
    \/ StartDedup
    \/ \E j \in JobIds : JobLock(j)
    \/ \E j \in JobIds : JobSetRunning(j)
    \/ \E j \in JobIds : DedupResolve(j)
    \/ \E j \in JobIds : DedupWriteLog(j)
    \/ \E j \in JobIds : DedupDeleteOrphans(j)
    \/ \E j \in JobIds : DedupSetActive(j)
    \/ StartOverlap
    \/ \E j \in JobIds : OverlapDetect(j)
    \/ \E j \in JobIds : OverlapPersist(j)
    \/ \E j \in JobIds : OverlapSetActive(j)
    \/ \E j \in JobIds : JobRelease(j)
    \/ CreateStrategy
    \/ CreateStrategyActivate
    \/ ActivateStrategy

Spec == Init /\ [][Next]_vars

\* A step of the background task of job j other than the clustering step.
WorkerStep(j) ==
    /\ j \in JobIds
    /\ \/ ImportParse(j) \/ ImportLock(j) \/ ImportWrite(j)
       \/ ImportSetCompletedRaises(j) \/ ImportRelease(j)
       \/ JobLock(j) \/ JobSetRunning(j)
       \/ DedupWriteLog(j) \/ DedupDeleteOrphans(j) \/ DedupSetActive(j)
       \/ OverlapPersist(j) \/ OverlapSetActive(j)
       \/ JobRelease(j)

\* Job j stands before its clustering step (DedupResolve or OverlapDetect),
\* which is enabled exactly then and always moves the job on.
AtClustering(j) ==
    j \in JobIds /\ jobs[j].kind \in {"dedup", "overlap"} /\ jobs[j].pc = "work"

\* The job ids there can be: the two uploads of the loaded project and the
\* jobs created in the run.
MaxJobIds == MaxJobs + 2

\* Spec with every background task running to its end: FastAPI runs each
\* task it was handed, so a task that can take a step takes it.  For the
\* clustering step weak fairness is written as "the job does not stay before
\* the step for ever".
SpecFair ==
    /\ Spec
    /\ \A j \in 1..MaxJobIds : WF_vars(WorkerStep(j)) /\ []<>(~AtClustering(j))

\* The overlap workflow on the project with the two uploads: full-project
\* runs, the within-source pass and the lock endpoint.
InitOverlap == InitWith(TRUE) /\ lib = NoLib

NextOverlap ==
    \/ StartOverlap
    \/ \E j \in JobIds : JobLock(j)
    \/ \E j \in JobIds : JobSetRunning(j)
    \/ \E j \in JobIds : OverlapDetect(j)
    \/ \E j \in JobIds : OverlapPersist(j)
    \/ \E j \in JobIds : OverlapSetActive(j)
    \/ \E j \in JobIds : JobRelease(j)
    \/ WithinSourcePass
    \/ LockCluster

SpecOverlap == InitOverlap /\ [][NextOverlap]_vars

\* Re-clustering the project with the two uploads: the project has, next to
\* its default strategy, the strategy st3 with the identifier-only config,
\* and dedup runs under either.
InitRecluster == InitState(TRUE, {"st1", "st3"}) /\ lib = NoLib

NextRecluster ==
    \/ StartDedup
    \/ \E j \in JobIds : JobLock(j)
    \/ \E j \in JobIds : JobSetRunning(j)
    \/ \E j \in JobIds : DedupResolve(j)
    \/ \E j \in JobIds : DedupWriteLog(j)
    \/ \E j \in JobIds : DedupDeleteOrphans(j)
    \/ \E j \in JobIds : DedupSetActive(j)
    \/ \E j \in JobIds : JobRelease(j)
    \/ ActivateStrategy

SpecRecluster == InitRecluster /\ [][NextRecluster]_vars

\* The manual overrides on the project with the two uploads: manual links,
\* the lock endpoint and the removal of members.
NextLink ==
    \/ ManualLink
    \/ LockCluster
    \/ RemoveMember

SpecLink == InitOverlap /\ [][NextLink]_vars

\* --------------------------------------------------------- visual summary
\* Longest source_uuids list and longest source_ids list of one cluster.
MaxSources == 3

\* Most entries of cluster_source_sets.
MaxSets == 2

\* The source ids the lists are drawn from.
MatrixSources == {"s1", "s2", "s3"}

SeqsUpTo(S, n) == UNION {[1..k -> S] : k \in 0..n}

\* The orders in which the elements of a Python set may be listed.
Orders(S) ==
    {q \in [1..Cardinality(S) -> S] : \A i, k \in 1..Cardinality(S) : q[i] = q[k] => i = k}

\* idx = {sid: i for i, sid in enumerate(source_uuids)}: for an id listed
\* twice the later position replaces the earlier.
idx(source_uuids, sid) ==
    CHOOSE i \in 1..Len(source_uuids) :
        /\ source_uuids[i] = sid
        /\ \A k \in (i + 1)..Len(source_uuids) : source_uuids[k] # sid

\* m[a][b] += 1
Increment(m, a, b) == [m EXCEPT ![a][b] = @ + 1]

\* Only m[a][b] += 1.
PairCountedOnce(m, a, b) == Increment(m, a, b)

\* m[a][b] += 1; m[b][a] += 1
PairCounted(m, a, b) == Increment(Increment(m, a, b), b, a)

\* The loops over i and j > i of one cluster's unique list (1-based).
RECURSIVE PairLoop(_, _, _, _, _)
PairLoop(m, source_uuids, unique, i, j) ==
    IF i > Len(unique) THEN m
    ELSE IF j > Len(unique) THEN PairLoop(m, source_uuids, unique, i + 1, i + 2)
    ELSE PairLoop(PairCounted(m, idx(source_uuids, unique[i]), idx(source_uuids, unique[j])),
                  source_uuids, unique, i, j + 1)

\* compute_overlap_matrix is called with a list of sources and no cluster
\* yet read: m is the n x n matrix of zeros.
InitMatrix ==
    /\ InitWith(FALSE)
    /\ \E source_uuids \in SeqsUpTo(MatrixSources, MaxSources) :
          lib = [kind |-> "matrix", source_uuids |-> source_uuids,
                 cluster_source_sets |-> <<>>,
                 m |-> [a \in 1..Len(source_uuids) |->
                          [b \in 1..Len(source_uuids) |-> 0]]]

\* One round of the loop over cluster_source_sets: the next cluster's source
\* ids, reduced to the known ones without repetition, in any order.
MatrixStep ==
    /\ lib.kind = "matrix"
    /\ Len(lib.cluster_source_sets) < MaxSets
    /\ \E source_ids \in SeqsUpTo(MatrixSources, MaxSources) :
          \E unique \in Orders(SeqToSet(source_ids) \cap SeqToSet(lib.source_uuids)) :
              lib' = [lib EXCEPT
                        !.cluster_source_sets = Append(@, source_ids),
                        !.m = PairLoop(@, lib.source_uuids, unique, 1, 2)]
    /\ UNCHANGED app

NextMatrix == MatrixStep

SpecMatrix == InitMatrix /\ [][NextMatrix]_vars

\* ------------------------------------------------------------- union-find
\* Number of ids of the _UnionFind exercised on its own.
MaxIds == 4

UnionIds == 1..MaxIds

\* The tiers of the unions: an identifier match and a title-year match.
UnionTiers == {1, 2}

UnionBasis(tier) == IF tier = 1 THEN "tier1_doi" ELSE "tier2_title_year"

\* _UnionFind(ids): every id is its own root; no union has been made.
InitUnion ==
    /\ InitWith(FALSE)
    /\ lib = [kind |-> "union_find", uf |-> UnionFindInit(UnionIds), unions |-> {}]

\* uf.union(a, b, tier, basis, reason).  unions keeps the calls that joined
\* two sets (in cluster_builder the calls that return True).
UnionStep ==
    /\ lib.kind = "union_find"
    /\ \E a, b \in UnionIds, tier \in UnionTiers :
          lib' = [lib EXCEPT
                    !.uf = union(@, a, b, tier, UnionBasis(tier)),
                    !.unions = IF find(lib.uf, a) # find(lib.uf, b)
                               THEN @ \cup {[a |-> a, b |-> b, tier |-> tier]}
                               ELSE @]
    /\ UNCHANGED app

NextUnion == UnionStep

SpecUnion == InitUnion /\ [][NextUnion]_vars

\* ------------------------------------------------- concurrent start requests
\* start_dedup_job and run_overlap_detection are coroutines: between the
\* SELECT of get_running and the INSERT of DedupJobRepo.create another
\* request can run.  lib.checked lists the requests that have passed the
\* checks and not yet created their row.
InitStart ==
    /\ InitWith(TRUE)
    /\ lib = [kind |-> "requests", checked |-> <<>>]

\* The first half of both start routes: 404 for a strategy of another
\* project, 409 while a dedup_jobs row is pending or running.
StartCheck ==
    \E kind \in {"dedup", "overlap"}, p \in Projects, s \in StrategyIds :
        /\ lib.kind = "requests"
        /\ started + Len(lib.checked) < MaxJobs
        /\ get_by_id(p, s)
        /\ get_running(p) = {}
        /\ lib' = [lib EXCEPT !.checked =
                      Append(@, [kind |-> kind, project |-> p, strategy |-> s])]
        /\ UNCHANGED app

\* The second half: DedupJobRepo.create commits the pending row and the
\* background task is scheduled.
StartCreate ==
    \E i \in 1..Len(lib.checked) :
        /\ lib.kind = "requests"
        /\ jobs' = Append(jobs, NewJob(lib.checked[i].kind, lib.checked[i].project,
                                       "", <<>>, lib.checked[i].strategy))
        /\ txn' = Append(txn, NoTxn)
        /\ started' = started + 1
        /\ lib' = [lib EXCEPT !.checked =
                      SubSeq(@, 1, i - 1) \o SubSeq(@, i + 1, Len(@))]
        /\ UNCHANGED <<records, record_sources, match_log, created, is_active,
                       activating, locks, clusters>>

\* The start requests of dedup and overlap jobs with their background tasks.
NextStart ==
    \/ StartCheck
    \/ StartCreate
    \/ \E j \in JobIds : JobLock(j)
    \/ \E j \in JobIds : JobSetRunning(j)
    \/ \E j \in JobIds : DedupResolve(j)
    \/ \E j \in JobIds : DedupWriteLog(j)
    \/ \E j \in JobIds : DedupDeleteOrphans(j)
    \/ \E j \in JobIds : DedupSetActive(j)
    \/ \E j \in JobIds : OverlapDetect(j)
    \/ \E j \in JobIds : OverlapPersist(j)
    \/ \E j \in JobIds : OverlapSetActive(j)
    \/ \E j \in JobIds : JobRelease(j)

SpecStart == InitStart /\ [][NextStart]_vars

\* ------------------------------------------------------------ input order
\* Number of rows handed to compute_clusters and to detect on their own.
MaxRecs == 4

\* A record_sources row with id i of source s1: year 2001, no PMID.
TestRow(i, doi, title, author, abstract) ==
    [id |-> i, record_id |-> i, source_id |-> "s1", import_job_id |-> 1,
     norm_title |-> title, norm_first_author |-> author, match_year |-> 2001,
     match_doi |-> doi, pmid |-> "", abstract |-> abstract]

\* The lists of MaxRecs rows, in id order, with fields from the given sets.
TestLists(Dois, Titles, Authors, Abstracts) ==
    {[i \in 1..MaxRecs |-> TestRow(i, f[i][1], f[i][2], f[i][3], f[i][4])] :
        f \in [1..MaxRecs -> Dois \X Titles \X Authors \X Abstracts]}

\* A helper waits for its calls on the rows of list: orders holds the
\* argument lists of the calls made, outs their results.
Waiting(kind, list, config) ==
    [kind |-> kind, sources |-> list, config |-> config, orders |-> <<>>, outs |-> {}]

\* The argument of the next call: the list as it is, then any order of it.
NextOrders ==
    IF lib.orders = <<>> THEN {lib.sources} ELSE Orders(SeqToSet(lib.sources))

\* compute_clusters waits for its calls under the strict or the medium
\* preset.
InitClusters ==
    /\ InitWith(FALSE)
    /\ \E list \in TestLists({"", "d1"}, {"t1", "t2"}, {"a1", "a2"}, {""}),
          preset \in {"doi_first_strict", "doi_first_medium"} :
          lib = Waiting("compute_clusters", list, from_preset(preset))

\* TieredClusterBuilder(config).compute_clusters(order)
ClustersStep ==
    /\ lib.kind = "compute_clusters"
    /\ Len(lib.orders) < 2
    /\ \E order \in NextOrders :
          lib' = [lib EXCEPT !.orders = Append(@, order),
                             !.outs = @ \cup {compute_clusters(order, lib.config)}]
    /\ UNCHANGED app

NextClusters == ClustersStep

SpecClusters == InitClusters /\ [][NextClusters]_vars

\* detect waits for its calls on rows of one title.
InitDetect ==
    /\ InitWith(FALSE)
    /\ \E list \in TestLists({"", "d1"}, {"t1"}, {"a1", "a2"}, {"", "x"}) :
          lib = Waiting("detect", list, "default")

\* _persist_cluster for each cluster of the last call of detect: clusters
\* holds the rows written.
PersistStep ==
    /\ lib.kind = "detect"
    /\ lib.orders # <<>>
    /\ lib' = [lib EXCEPT
                 !.kind = "persisted",
                 !.outs = {persist_cluster(1, "P1", 1, "within_source", c.records,
                                           c.tier, c.match_basis)
                             : c \in SeqToSet(detect(lib.orders[Len(lib.orders)]))}]
    /\ UNCHANGED app

\* OverlapDetector(OverlapConfig.default()).detect(order)
DetectStep ==
    /\ lib.kind = "detect"
    /\ Len(lib.orders) < 2
    /\ \E order \in NextOrders :
          lib' = [lib EXCEPT !.orders = Append(@, order),
                             !.outs = @ \cup {detect(order)}]
    /\ UNCHANGED app

NextDetect == DetectStep
    \/ PersistStep

SpecDetect == InitDetect /\ [][NextDetect]_vars

\* --------------------------------------------------------- import parsing
\* Most blocks of an uploaded RIS file.
MaxBlocks == 6

\* A block rispy parses into a record, and a block on which rispy raises.
BlockKinds == {"valid", "corrupt"}

\* A text is the sequence of its pieces; ExcText is str(exc), the text of
\* the exception rispy raised.
ExcText == "str(exc)"

\* ris.parse_tolerant: a RecordError for each block on which rispy raises,
\* with reason f"RIS parse error: {exc}".
RECURSIVE BlockErrors(_, _)
BlockErrors(blocks, i) ==
    IF i > Len(blocks) THEN <<>>
    ELSE (IF blocks[i] = "corrupt"
          THEN <<[index |-> i - 1, reason |-> <<"RIS parse error: ", ExcText>>]>>
          ELSE <<>>) \o BlockErrors(blocks, i + 1)

parse_tolerant(blocks) ==
    [errors |-> BlockErrors(blocks, 1),
     valid_count |-> Len(SelectSeq(blocks, LAMBDA b : b = "valid")),
     failed_count |-> Len(BlockErrors(blocks, 1))]

\* The lines "  [index] reason" of the first n errors.
RECURSIVE ErrorLines(_, _)
ErrorLines(errors, n) ==
    IF errors = <<>> \/ n = 0 THEN <<>>
    ELSE Head(errors).reason \o ErrorLines(Tail(errors), n - 1)

\* ParseResult.error_summary (a RIS result has no file-level warnings).
error_summary(result) ==
    (IF result.valid_count = 0 THEN <<"No valid records found in 'ris' file.">>
     ELSE <<"record(s) imported from RIS format.">>)
    \o (IF result.failed_count > 0
        THEN <<"record(s) skipped:">> \o ErrorLines(result.errors, 10)
        ELSE <<>>)

\* An import job is pending with an uploaded file of one block or more.
InitParse ==
    /\ InitWith(FALSE)
    /\ \E blocks \in SeqsUpTo(BlockKinds, MaxBlocks) \ {<<>>} :
          lib = [kind |-> "import_parse", blocks |-> blocks, status |-> "pending",
                 error_msg |-> <<>>]

\* _run_import, first session: set_processing, parse_file, and with no valid
\* record set_failed(error_summary()).
ParseStep ==
    /\ lib.kind = "import_parse" /\ lib.status = "pending"
    /\ lib' = IF parse_tolerant(lib.blocks).valid_count = 0
              THEN [lib EXCEPT !.status = "failed",
                               !.error_msg = error_summary(parse_tolerant(lib.blocks))]
              ELSE [lib EXCEPT !.status = "processing"]
    /\ UNCHANGED app

NextParse == ParseStep

SpecParse == InitParse /\ [][NextParse]_vars

\* ----------------------------------------------------------------- claims
RecordIds(R) == {r.id : r \in R}

\* C1: within a project no two canonical records carry the same non-null
\* match_key, whatever imports and dedup runs have committed.
C1_UniqueMatchKey ==
    \A r1, r2 \in records :
        (r1.project = r2.project /\ r1.match_key # NoKey /\ r1.match_key = r2.match_key)
            => r1.id = r2.id

\* An import started on the loaded project has run to its end and linked
\* nothing new: each record of its file met its key in the table.
C1_Witness ==
    \E j \in JobIds :
        /\ jobs[j].kind = "import" /\ jobs[j].pc = "done" /\ jobs[j].file # <<>>
        /\ jobs[j].error_msg = "safe_msg"
        /\ \A rs \in record_sources : rs.import_job_id # j
        /\ \E r \in records : r.project = jobs[j].project /\ r.match_key # NoKey

\* C2: every record_sources row points at a records row that exists and
\* belongs to the project of the row's source.
C2_SourcesReferenceRecords ==
    \A rs \in record_sources :
        \E r \in records : r.id = rs.record_id /\ r.project = SourceProject(rs.source_id)

\* A dedup run has re-pointed a row and deleted the record it left behind
\* (the log row's old_record_id was set to NULL by the delete).
C2_Witness ==
    \E l \in match_log :
        /\ l.action = "merged" /\ l.old_record_id = 0
        /\ jobs[l.dedup_job_id].status = "completed"
        /\ \E rs \in record_sources : rs.id = l.record_src_id /\ rs.record_id = l.new_record_id

\* Between the acquisition of the project lock and its release.
InLockScope(j) ==
    \/ jobs[j].kind = "import" /\ jobs[j].pc \in {"write", "complete", "release"}
    \/ /\ jobs[j].kind \in {"dedup", "overlap"}
       /\ jobs[j].pc \in {"set_running", "work", "log", "orphans", "persist",
                           "set_active", "release"}

\* C3: two mutation jobs of one project are never both between their lock
\* acquisition and their lock release.
C3_SingleWriter ==
    \A i, j \in JobIds :
        (i # j /\ jobs[i].project = jobs[j].project)
            => ~(InLockScope(i) /\ InLockScope(j))

\* One job holds the project lock while another job of the project has been
\* turned away by it.
C3_Witness ==
    \E i, j \in JobIds :
        /\ i # j /\ jobs[i].project = jobs[j].project
        /\ InLockScope(i) /\ locks[derive_project_lock_key(jobs[i].project)] = i
        /\ jobs[j].status = "failed" /\ jobs[j].error_msg = "lock_busy"

\* Everything the transaction of dedup job j holds is in the tables after the
\* step: the re-pointed rows, the records without the orphans, the log rows.
CommittedAll(j) ==
    /\ ProjectSources(record_sources', records', jobs[j].project) = txn[j].rs
    /\ ProjectRecords(records', jobs[j].project) =
          {r \in txn[j].records : \E rs \in txn[j].rs : rs.record_id = r.id}
    /\ \A e \in txn[j].entries :
          \E l \in match_log' : /\ l.dedup_job_id = j
                                 /\ l.record_src_id = e.record_src_id
                                 /\ l.new_record_id = e.new_record_id
                                 /\ l.action = e.action

\* C4: a step of a dedup job changes the committed records, record_sources
\* and match_log only when it marks the job completed, and then it commits
\* all of the job's writes; a job that ends failed (or is left as it was)
\* has committed none of them.
C4_DedupAllOrNothing ==
    [][\A j \in JobIds :
          (jobs[j].kind = "dedup" /\ jobs'[j] # jobs[j])
            => IF jobs'[j].status = "completed" /\ txn[j].open
               THEN CommittedAll(j)
               ELSE UNCHANGED <<records, record_sources, match_log>>]_vars

\* A completed dedup job whose merge is in the tables: the log row and the
\* re-pointed record_sources row.
C4_Witness ==
    \E j \in JobIds :
        /\ jobs[j].kind = "dedup" /\ jobs[j].status = "completed"
        /\ \E l \in match_log, rs \in record_sources :
              /\ l.dedup_job_id = j /\ l.action = "merged"
              /\ rs.id = l.record_src_id /\ rs.record_id = l.new_record_id

\* C5 (as stated): the commit that shows a dedup job completed shows the whole
\* post-job state, the job's strategy as the active one included.
C5_ReaderSeesPreOrPost ==
    [][\A j \in JobIds :
          (jobs[j].kind = "dedup" /\ jobs[j].status # "completed"
             /\ jobs'[j].status = "completed")
            => jobs[j].strategy \in is_active']_vars

\* C6 (as stated): a job whose worker has returned has a terminal status.
C6_WorkerEndsTerminal ==
    \A j \in JobIds : jobs[j].pc = "done" => jobs[j].status \in {"completed", "failed"}

LockedMembers(C, p) ==
    UNION {{m.record_source_id : m \in c.members}
             : c \in {d \in C : d.project = p /\ d.locked}}

C9_AtMostOneActive ==
    \A p \in Projects : Cardinality(get_active(p)) <= 1

\* A job's set_active has replaced the active strategy st1 by st2.
C9_Witness ==
    \E j \in JobIds :
        /\ jobs[j].kind \in {"dedup", "overlap"} /\ jobs[j].pc \in {"release", "done"}
        /\ jobs[j].status = "completed" /\ jobs[j].strategy = "st2"
        /\ is_active = {"st2"} /\ created = {"st1", "st2"}

\* C10: the step that flushes the match_log rows of a dedup run writes them
\* while the transaction still holds every record they name, old and new, and
\* every record of the project: no orphan has been deleted yet.
C10_LogBeforeOrphanDelete ==
    [][\A j \in JobIds :
          (jobs[j].kind = "dedup" /\ jobs[j].pc = "log" /\ jobs'[j].pc = "orphans")
            => /\ \A l \in txn'[j].log \ txn[j].log :
                     /\ l.old_record_id \in RecordIds(txn[j].records)
                     /\ l.new_record_id \in RecordIds(txn[j].records)
               /\ txn'[j].entries \subseteq txn'[j].log
               /\ RecordIds(ProjectRecords(records, jobs[j].project))
                     \subseteq RecordIds(txn[j].records)]_vars

\* A dedup run stands before its orphan DELETE with a flushed log row whose
\* old record is one of the orphans.
C10_Witness ==
    \E j \in JobIds :
        /\ jobs[j].kind = "dedup" /\ jobs[j].pc = "orphans"
        /\ \E l \in txn[j].log :
              /\ l.dedup_job_id = j /\ l.action = "merged"
              /\ l.old_record_id \in RecordIds(Orphans(txn[j].records, txn[j].rs))

\* Table L holds log row l with the old and the new record id it was written
\* with.
KeepsLogRow(L, l) ==
    \E m \in L : /\ m.dedup_job_id = l.dedup_job_id
                 /\ m.record_src_id = l.record_src_id
                 /\ m.old_record_id = l.old_record_id
                 /\ m.new_record_id = l.new_record_id

\* C11 (as stated): a match_log row, once written, keeps its old and its new
\* record id: every committed row is in the table after every step, and every
\* row a dedup run has flushed is in the table, as flushed, when the run's
\* orphan deletion and commit are through.
C11_MatchLogAppendOnly ==
    [][/\ \A l \in match_log : KeepsLogRow(match_log', l)
       /\ \A j \in JobIds :
             (jobs[j].kind = "dedup" /\ jobs[j].pc = "orphans"
                /\ jobs'[j].status = "completed")
               => \A l \in txn[j].log : KeepsLogRow(match_log', l)]_vars

\* record_sources.raw_data as far as the jobs read it: the pmid and the
\* abstract.
RawData(rs) == [pmid |-> rs.pmid, abstract |-> rs.abstract]

\* Row b is row a up to the record it points at.
SameButRecordId(a, b) ==
    /\ b.id = a.id /\ b.source_id = a.source_id /\ b.import_job_id = a.import_job_id
    /\ RawData(b) = RawData(a)
    /\ b.norm_title = a.norm_title /\ b.norm_first_author = a.norm_first_author
    /\ b.match_year = a.match_year /\ b.match_doi = a.match_doi

\* C12: a step of a dedup job, whether the job completes or fails, leaves
\* every record_sources row in the table with its raw_data and its match
\* fields; at most record_id differs, and no row is added.
C12_DedupChangesOnlyRecordId ==
    [][\A j \in JobIds :
          (jobs[j].kind = "dedup" /\ jobs'[j] # jobs[j])
            => /\ \A a \in record_sources :
                     \E b \in record_sources' : SameButRecordId(a, b)
               /\ {b.id : b \in record_sources'} = {a.id : a \in record_sources}]_vars

\* A completed dedup run has moved the row that carries a DOI to another
\* record; the row still has its DOI.
C12_Witness ==
    \E l \in match_log, rs \in record_sources :
        /\ l.action = "merged" /\ rs.id = l.record_src_id
        /\ rs.record_id = l.new_record_id /\ rs.match_doi = "d1"
        /\ jobs[l.dedup_job_id].kind = "dedup"
        /\ jobs[l.dedup_job_id].status = "completed"

\* The records and record_sources of project p are as the completed dedup
\* run i left them: every row is at the record run i logged for it, and no
\* record is without a row.
AsLeftBy(i, p) ==
    /\ \A rs \in ProjectSources(record_sources, records, p) :
          \E l \in match_log : /\ l.dedup_job_id = i
                                /\ l.record_src_id = rs.id
                                /\ l.new_record_id = rs.record_id
    /\ Orphans(ProjectRecords(records, p), record_sources) = {}

\* Run j follows run i: same project, same strategy, no job of the project
\* created between them, and the tables as run i left them.
RunsInARow(i, j) ==
    /\ i < j /\ jobs[i].kind = "dedup" /\ jobs[i].status = "completed"
    /\ jobs[i].project = jobs[j].project /\ jobs[i].strategy = jobs[j].strategy
    /\ \A k \in JobIds : (i < k /\ k < j) => jobs[k].project # jobs[j].project
    /\ AsLeftBy(i, jobs[j].project)

\* C13: the step that completes a dedup run which follows a completed run of
\* the same strategy, with nothing in between, records 0 merges, 0 clusters
\* created and 0 clusters deleted.
C13_SecondRunChangesNothing ==
    [][\A j \in JobIds :
          (/\ jobs[j].kind = "dedup" /\ jobs[j].status # "completed"
           /\ jobs'[j].status = "completed"
           /\ \E i \in JobIds : RunsInARow(i, j))
            => /\ jobs'[j].merges = 0
               /\ jobs'[j].clusters_created = 0
               /\ jobs'[j].clusters_deleted = 0]_vars

\* Two completed runs of one strategy in a row: the first merged a row and
\* deleted the record it left, the second reports nothing.
C13_Witness ==
    \E i, j \in JobIds :
        /\ RunsInARow(i, j) /\ jobs[j].kind = "dedup" /\ jobs[j].status = "completed"
        /\ jobs[i].merges > 0 /\ jobs[i].clusters_deleted > 0
        /\ jobs[j].merges = 0 /\ jobs[j].clusters_deleted = 0

\* Import job j writes a file that import job i has already written into the
\* same source under the same preset, and no dedup run of the project has
\* touched the rows since.
SecondImport(i, j) ==
    /\ i # j /\ jobs[i].kind = "import"
    /\ jobs[i].pc \in {"complete", "release", "done"}
    /\ jobs[i].error_msg \notin {"lock_busy", "parse_summary"}
    /\ jobs[i].project = jobs[j].project /\ jobs[i].source = jobs[j].source
    /\ jobs[i].file = jobs[j].file /\ jobs[i].preset = jobs[j].preset
    /\ \A k \in JobIds : jobs[k].kind = "dedup" => jobs[k].project # jobs[j].project

\* C14 (as stated): the write of an import whose file has been imported into
\* the same source before inserts no record_sources row and leaves the
\* records as they are.
C14_ReimportAddsNothing ==
    [][\A j \in JobIds :
          (/\ jobs[j].kind = "import" /\ jobs[j].pc = "write"
           /\ jobs'[j].pc = "complete"
           /\ \E i \in JobIds : SecondImport(i, j))
            => /\ record_sources' = record_sources
               /\ records' = records]_vars

\* Every change of the status of a dedup_jobs row in this step is one of the
\* transitions in T.
StatusMoves(T) ==
    \A j \in JobIds :
        (jobs[j].kind \in {"dedup", "overlap"} /\ jobs'[j].status # jobs[j].status)
            => <<jobs[j].status, jobs'[j].status>> \in T

\* C15 (as stated): the status of a dedup job changes only along
\* pending -> running -> completed or pending -> running -> failed.
C15_StatusLifecycleAsStated ==
    [][StatusMoves({<<"pending", "running">>, <<"running", "completed">>,
                    <<"running", "failed">>})]_vars

\* C15 (amended): the status of a dedup job changes only along
\* pending -> running -> completed, pending -> running -> failed, or
\* pending -> failed, the last when the project lock was refused and the job
\* never ran.
C15_StatusLifecycle ==
    [][/\ StatusMoves({<<"pending", "running">>, <<"running", "completed">>,
                       <<"running", "failed">>, <<"pending", "failed">>})
       /\ \A j \in JobIds :
             (/\ jobs[j].kind \in {"dedup", "overlap"}
              /\ jobs[j].status = "pending" /\ jobs'[j].status = "failed")
               => jobs'[j].error_msg = "lock_busy"]_vars

\* One dedup job of the project has run from pending over running to
\* completed, another went from pending to failed at the lock.
C15_Witness ==
    \E i, j \in JobIds :
        /\ jobs[i].kind = "dedup" /\ jobs[i].status = "completed"
        /\ jobs[j].kind \in {"dedup", "overlap"} /\ jobs[j].project = jobs[i].project
        /\ jobs[j].status = "failed" /\ jobs[j].pc = "done"

\* Job j stands at its try-acquire and another session holds the lock of its
\* project.
RefusedAtLock(j) ==
    /\ \/ jobs[j].kind = "import" /\ jobs[j].pc = "lock"
       \/ jobs[j].kind \in {"dedup", "overlap"} /\ jobs[j].pc = "start"
    /\ locks[derive_project_lock_key(jobs[j].project)] # 0

\* No row of R, RS, C or L was written by job j.
WroteNothing(j, RS, C, L) ==
    /\ \A rs \in RS : rs.import_job_id # j \/ jobs[j].kind # "import"
    /\ \A c \in C : c.job_id # j
    /\ \A l \in L : l.dedup_job_id # j

\* C16: the step of a job whose try-acquire is refused marks the job failed
\* with the "another job is running" message and changes no table; the job
\* takes no further step, and no record_sources, overlap cluster or match_log
\* row carries its id.
C16_LockRefusalFailsJob ==
    [][\A j \in JobIds :
          /\ (RefusedAtLock(j) /\ jobs'[j] # jobs[j])
                => /\ jobs'[j].status = "failed"
                   /\ jobs'[j].error_msg = "lock_busy"
                   /\ jobs'[j].pc = "done"
                   /\ UNCHANGED <<records, record_sources, clusters, match_log, locks>>
          /\ jobs[j].error_msg = "lock_busy"
                => /\ jobs'[j] = jobs[j]
                   /\ WroteNothing(j, record_sources', clusters', match_log')]_vars

\* An import was turned away at the lock; the job that held the lock has
\* since finished and released it, and the project has rows.
C16_Witness ==
    \E i, j \in JobIds :
        /\ jobs[j].kind = "import" /\ jobs[j].status = "failed"
        /\ jobs[j].error_msg = "lock_busy" /\ jobs[j].pc = "done"
        /\ i # j /\ jobs[i].project = jobs[j].project /\ jobs[i].pc = "done"
        /\ jobs[i].error_msg # "lock_busy"
        /\ locks[derive_project_lock_key(jobs[j].project)] = 0
        /\ ProjectRecords(records, jobs[j].project) # {}

\* C17: a worker that has returned does not hold the project lock, and a
\* lock that is held is released: whenever a project's lock is taken it is
\* free again later, so that a try-acquire made then succeeds.
C17_LockIsReleased ==
    /\ [](\A j \in JobIds :
            jobs[j].pc = "done" => locks[derive_project_lock_key(jobs[j].project)] # j)
    /\ \A k \in LockKeys : (locks[k] # 0) ~> (locks[k] = 0)

\* A dedup worker whose critical section ended by an exception (its row was
\* left running) has returned, and the lock of its project is free.
C17_Witness ==
    \E j \in JobIds :
        /\ jobs[j].kind = "dedup" /\ jobs[j].pc = "done" /\ jobs[j].status = "running"
        /\ locks[derive_project_lock_key(jobs[j].project)] = 0

\* C18 (as stated): a job is refused at its try-acquire only while a job of
\* its own project holds the lock, never because of a job of another
\* project.
C18_RefusedOnlyByOwnProject ==
    [][\A j \in JobIds :
          (jobs[j].error_msg # "lock_busy" /\ jobs'[j].error_msg = "lock_busy")
            => \E i \in JobIds :
                  /\ i # j /\ jobs[i].project = jobs[j].project
                  /\ locks[derive_project_lock_key(jobs[i].project)] = i]_vars

\* Job i is active: an import that is pending or processing, or a dedup_jobs
\* row that is pending or running.
ActiveJob(i) ==
    \/ jobs[i].kind = "import" /\ jobs[i].status \in {"pending", "processing"}
    \/ jobs[i].kind \in {"dedup", "overlap"} /\ jobs[i].status \in {"pending", "running"}

\* C19 (as stated): a start request creates a job only for a project without
\* an active job; for a project with one it is refused and the job table
\* stays as it is.
C19_NoStartWhileActive ==
    [][Len(jobs') > Len(jobs)
          => ~\E i \in JobIds :
                ActiveJob(i) /\ jobs[i].project = jobs'[Len(jobs')].project]_vars

\* The cross_source clusters with one of the ids as a member.
ClustersHolding(ids) ==
    {c \in clusters : /\ c.scope = "cross_source"
                      /\ \E m \in c.members : m.record_source_id \in ids}

\* The record_source ids of the members of the clusters in C.
MemberIds(C) == UNION {{m.record_source_id : m \in c.members} : c \in C}

\* The requested records lie in exactly two distinct clusters, both unlocked,
\* and none of them is unclustered.
InTwoUnlocked(ids) ==
    /\ Cardinality(ClustersHolding(ids)) = 2
    /\ \A c \in ClustersHolding(ids) : ~c.locked
    /\ \A r \in ids : CrossSourceWith(r) # {}

\* In table C the smaller of the two clusters holding the ids is there with
\* origin mixed and the members of both, and the other is gone.
MergedInto(C, ids) ==
    LET two == sorted_ids({c.id : c \in ClustersHolding(ids)})
    IN  /\ \E k \in C : /\ k.id = two[1] /\ k.origin = "mixed"
                         /\ MemberIds(ClustersHolding(ids)) \subseteq MemberIds({k})
        /\ \A c \in C : c.id # two[2]

MemberOf(C, cid, rsid) ==
    UNION {{m \in c.members : m.record_source_id = rsid} : c \in {d \in C : d.id = cid}}

\* C21: in every state, a remove_member request for a member that was not
\* added by a user is rejected and leaves every cluster as it is; a request
\* for a user-added member of a cluster of the project takes exactly that
\* member out of that cluster.
C21_RemoveOnlyUserAdded ==
    \A p \in Projects, c \in clusters, rs \in record_sources :
        LET res == remove_cluster_member(p, c.id, rs.id)
            m   == MemberOf(clusters, c.id, rs.id)
        IN  IF c.project = p /\ m # {} /\ \A x \in m : x.added_by = "user"
            THEN /\ ~res.rejected
                 /\ res.clusters = (clusters \ {c}) \cup {[c EXCEPT !.members = @ \ m]}
            ELSE res.rejected /\ res.clusters = clusters

\* A manually created cluster has lost a user-added member (it was created
\* with two or more) and holds a member it took over in a merge, which a
\* request cannot remove.
C21_Witness ==
    \E c \in clusters :
        /\ c.match_basis = "manual"
        /\ Cardinality({m \in c.members : m.added_by = "user"}) < 2
        /\ \E m \in c.members : m.added_by = "auto"

\* The sources the members of cluster c come from.
MemberSources(c) == {m.source_id : m \in c.members}

C23_MatrixSymmetric ==
    lib.kind = "matrix"
        => \A i, j \in 1..Len(lib.source_uuids) :
              /\ lib.m[i][j] = lib.m[j][i]
              /\ lib.m[i][i] = 0

\* Two clusters have been read that share a pair of sources: the cell of the
\* pair is 2; the list of sources names one source twice.
C23_Witness ==
    /\ lib.kind = "matrix" /\ Len(lib.cluster_source_sets) = 2
    /\ \E i, j \in 1..Len(lib.source_uuids) : i # j /\ lib.m[i][j] = 2
    /\ \E i, j \in 1..Len(lib.source_uuids) :
          i # j /\ lib.source_uuids[i] = lib.source_uuids[j]

\* The tiers of the unions that joined members of the set with root r.
JoiningTiers(r) == {u.tier : u \in {x \in lib.unions : find(lib.uf, x.a) = r}}

\* C24 (as stated): after any sequence of unions, the tier and basis stored
\* for the root of every set with more than one member are those of the
\* lowest tier among the unions that joined members of the set.
C24_LowestTierReported ==
    lib.kind = "union_find"
        => \A r \in UnionIds :
              (find(lib.uf, r) = r /\ JoiningTiers(r) # {})
                => /\ lib.uf.tier[r] = Min(JoiningTiers(r))
                   /\ lib.uf.basis[r] = UnionBasis(Min(JoiningTiers(r)))

\* C25 (as stated): a dedup run that obtained the project lock and has left
\* _run_clustering has status completed: no database constraint made it
\* fail.
C25_LockedDedupCompletes ==
    \A j \in JobIds :
        (/\ jobs[j].kind = "dedup" /\ jobs[j].pc \in {"release", "done"}
         /\ jobs[j].error_msg # "lock_busy")
            => jobs[j].status = "completed"

\* Rows a and b are members of one cluster of the clustering cs.
InSameCluster(cs, a, b) ==
    \E i \in 1..Len(cs) :
        /\ \E k \in 1..Len(cs[i].members) : cs[i].members[k].id = a.id
        /\ \E k \in 1..Len(cs[i].members) : cs[i].members[k].id = b.id

\* In the tables R and RS, two record_sources of project p reference the same
\* record exactly when the clustering under config puts them in one cluster.
RecordsFollowClusters(R, RS, p, config) ==
    \A a, b \in ProjectSources(RS, R, p) :
        (a.record_id = b.record_id)
            <=> InSameCluster(compute_clusters(SortById(ProjectSources(RS, R, p)), config), a, b)

\* C26 (as stated): when a dedup run completes, two record_sources of the
\* project reference the same canonical record exactly when the clustering
\* under the run's strategy puts them in the same cluster.
C26_SameRecordIffSameCluster ==
    [][\A j \in JobIds :
          (/\ jobs[j].kind = "dedup" /\ jobs[j].status # "completed"
           /\ jobs'[j].status = "completed")
            => RecordsFollowClusters(records', record_sources', jobs[j].project,
                                     JobConfig(j))]_vars

\* C27: a step never changes a terminal status: a completed job stays
\* completed and a failed job stays failed, whatever its worker and the other
\* jobs do afterwards.
C27_TerminalStatusStays ==
    [][\A j \in JobIds :
          /\ jobs[j].status = "completed" => jobs'[j].status = "completed"
          /\ jobs[j].status = "failed" => jobs'[j].status = "failed"]_vars

\* Both jobs of the run have returned: the dedup job completed and went on
\* through set_active and the release, the import failed and went on through
\* its release.
C27_Witness ==
    /\ started = Len(jobs)
    /\ \E i, j \in JobIds :
          /\ jobs[i].kind = "dedup" /\ jobs[i].status = "completed" /\ jobs[i].pc = "done"
          /\ jobs[j].kind = "import" /\ jobs[j].status = "failed" /\ jobs[j].pc = "done"
          /\ jobs[j].error_msg = "safe_msg"

\* C28 (as stated): the step that marks an import job failed leaves no
\* record_sources row of that job, and so no record it linked, in the
\* committed tables.
C28_FailedImportLeavesNothing ==
    [][\A j \in JobIds :
          (/\ jobs[j].kind = "import"
           /\ jobs[j].status # "failed" /\ jobs'[j].status = "failed")
              => \A rs \in record_sources' : rs.import_job_id # j]_vars

\* The match_log rows in L that job j wrote for record_source rsid.
LogRowsOf(L, j, rsid) == {l \in L : l.dedup_job_id = j /\ l.record_src_id = rsid}

\* In the tables R, RS, L job j has one match_log row for each record_source
\* of project p and none for any other.
OneRowPerSource(R, RS, L, j, p) ==
    /\ \A rs \in ProjectSources(RS, R, p) : Cardinality(LogRowsOf(L, j, rs.id)) = 1
    /\ \A l \in L : l.dedup_job_id = j
                        => \E rs \in ProjectSources(RS, R, p) : rs.id = l.record_src_id

\* C29: the step that completes a dedup job commits exactly one match_log
\* row of that job for each record_source of the project.
C29_OneLogRowPerSource ==
    [][\A j \in JobIds :
          (/\ jobs[j].kind = "dedup"
           /\ jobs[j].status # "completed" /\ jobs'[j].status = "completed")
              => OneRowPerSource(records', record_sources', match_log', j,
                                 jobs[j].project)]_vars

\* A dedup run has completed on a project of three or more record_sources,
\* with a merged and an unchanged row among its match_log rows.
C29_Witness ==
    \E j \in JobIds :
        /\ jobs[j].kind = "dedup" /\ jobs[j].status = "completed"
        /\ Cardinality(ProjectSources(record_sources, records, jobs[j].project)) >= 3
        /\ OneRowPerSource(records, record_sources, match_log, j, jobs[j].project)
        /\ \E l \in match_log : l.dedup_job_id = j /\ l.action = "merged"
        /\ \E l \in match_log : l.dedup_job_id = j /\ l.match_basis = "none"

\* Record r has a record_sources row of RS pointing at it.
Referenced(r, RS) == \E rs \in RS : rs.record_id = r.id

\* C30: the step that completes a dedup job leaves every record of the
\* project referenced by a record_sources row, and every record that a
\* record_sources row references after the step is still in the table.
C30_NoOrphanNoDangling ==
    [][\A j \in JobIds :
          (/\ jobs[j].kind = "dedup"
           /\ jobs[j].status # "completed" /\ jobs'[j].status = "completed")
              => /\ \A r \in ProjectRecords(records', jobs[j].project) :
                       Referenced(r, record_sources')
                 /\ \A r \in records : Referenced(r, record_sources') => r \in records'
                 /\ \A rs \in record_sources' :
                       \E r \in records' : r.id = rs.record_id]_vars

\* A dedup run has completed after merging record_sources and deleting the
\* record the merge left without a reference.
C30_Witness ==
    \E j \in JobIds :
        /\ jobs[j].kind = "dedup" /\ jobs[j].status = "completed"
        /\ jobs[j].merges > 0 /\ jobs[j].clusters_deleted > 0
        /\ \A r \in ProjectRecords(records, jobs[j].project) :
              Referenced(r, record_sources)

\* Dedup job j is completed and its task is past set_active.
EndedCompleted(j) ==
    /\ jobs[j].kind = "dedup" /\ jobs[j].status = "completed"
    /\ jobs[j].pc \in {"release", "done"}

\* C31 (as stated): in every state, the strategy of a dedup job that has
\* ended with status completed is the active strategy of its project.
C31_CompletedStrategyActiveAsStated ==
    \A j \in JobIds : EndedCompleted(j) => get_active(jobs[j].project) = {jobs[j].strategy}

\* C31 (amended): the task of a completed dedup job ends by making the
\* strategy it ran under the only active strategy of the project, and that
\* strategy stops being active only in a step that activates another
\* strategy of the project.
C31_CompletedStrategyActive ==
    [][\A j \in JobIds :
          /\ (~EndedCompleted(j) /\ EndedCompleted(j)')
                => get_active(jobs[j].project)' = {jobs[j].strategy}
          /\ (EndedCompleted(j) /\ jobs[j].strategy \in is_active
                                /\ jobs[j].strategy \notin is_active')
                => \E s \in get_active(jobs[j].project)' : s # jobs[j].strategy]_vars

\* A dedup run under a strategy that was not the active one has completed
\* and its strategy is the project's active strategy.
C31_Witness ==
    \E j \in JobIds :
        /\ EndedCompleted(j) /\ jobs[j].pc = "done"
        /\ jobs[j].strategy # "st1"
        /\ get_active(jobs[j].project) = {jobs[j].strategy}

Summary(out) ==
    {[members |-> {out[i].records[k].id : k \in 1..Len(out[i].records)},
      tier |-> out[i].tier, match_basis |-> out[i].match_basis] : i \in 1..Len(out)}

\* C33 (as stated): the calls of detect on the orders of one list of records
\* return clusters of the same membership, tier and basis.
C33_DetectIgnoresInputOrder ==
    lib.kind = "detect" => \A o1, o2 \in lib.outs : Summary(o1) = Summary(o2)

\* The row of the list with the given id.
RowOf(id) == CHOOSE r \in SeqToSet(lib.sources) : r.id = id

\* Rows a and b tie on has-DOI, has-PMID, has-title and abstract length.
TieOnRichness(a, b) ==
    SubSeq(richness_score(a), 1, 4) = SubSeq(richness_score(b), 1, 4)

\* C34 (as stated): in every persisted cluster the member with role
\* canonical has the smallest id among the members that tie with it on
\* has-DOI, has-PMID, has-title and abstract length.
C34_SmallestIdBreaksTie ==
    lib.kind = "persisted" =>
        \A c \in lib.outs : \A m, r \in c.members :
            (/\ m.role = "canonical"
             /\ TieOnRichness(RowOf(m.record_source_id), RowOf(r.record_source_id)))
                => m.record_source_id <= r.record_source_id

\* The within_source clusters hold every group the within-source pass finds
\* among the rows of source.
WithinSourceCurrent(source) ==
    \A i \in 1..Len(detect(SortById(SourceRows(source)))) :
        \E c \in clusters :
            /\ c.scope = "within_source"
            /\ {m.record_source_id : m \in c.members}
                  = {r.id : r \in SeqToSet(detect(SortById(SourceRows(source)))[i].records)}

\* C35 (as stated, for an import that has committed its rows): when the
\* task of the import ends, the within-source pass for its source has run,
\* so the within_source clusters hold the groups found among the source's
\* rows.
C35_WithinPassFollowsImport ==
    [][\A j \in JobIds :
          (/\ jobs[j].kind = "import"
           /\ jobs[j].pc # "done" /\ jobs'[j].pc = "done"
           /\ \E rs \in record_sources : rs.import_job_id = j)
              => WithinSourceCurrent(jobs[j].source)']_vars

\* C36 (as stated, import): the error_msg of a failed import job holds no
\* text of the underlying exception.
C36_ErrorMsgHoldsNoRawText ==
    (lib.kind = "import_parse" /\ lib.status = "failed")
        => \A i \in 1..Len(lib.error_msg) : lib.error_msg[i] # ExcText

\* C37 (as stated): in every state a project has at most one dedup_jobs row
\* in status pending or running.
C37_OnePendingOrRunning ==
    \A p \in Projects : Cardinality(get_running(p)) <= 1

\* Strategy s of project p is active and was made active by a dedup job
\* that has completed.
ActivatedByDedup(p, s) ==
    /\ get_active(p) = {s}
    /\ \E i \in JobIds : /\ jobs[i].kind = "dedup" /\ jobs[i].project = p
                          /\ jobs[i].strategy = s /\ jobs[i].status = "completed"
                          /\ jobs[i].pc \in {"release", "done"}

\* C38 (as stated): when an import writes under the project lock and the
\* active strategy of its project was activated by a completed dedup job,
\* the import computes its match keys with the preset of that strategy.
C38_ImportUsesActiveStrategy ==
    [][\A j \in JobIds : \A s \in StrategyIds :
          (/\ jobs[j].kind = "import"
           /\ jobs[j].pc = "write" /\ jobs'[j].pc = "complete"
           /\ ActivatedByDedup(jobs[j].project, s))
              => jobs[j].preset = StrategyPreset(s)]_vars

====
